---------------------------- MODULE Spec2Model ----------------------------
(***************************************************************************)
(* Product search of the marketplace backend: the search endpoints of      *)
(* routes/search.py, the service function of services/search_service.py   *)
(* and the matching / ranking helpers of services/search_utils.py.         *)
(*                                                                         *)
(* Strings are sequences of one-character strings, so that lower(),        *)
(* strip(), split() and substring tests are computed, not assumed.  The    *)
(* alphabet holds no LIKE wildcard ("%", "_"), so ILIKE '%x%' is a         *)
(* case-insensitive substring test.                                        *)
(*                                                                         *)
(* A SELECT returns its rows in an order SQL leaves open: without ORDER BY *)
(* any order (and, with LIMIT, any rows among the matching ones), with     *)
(* ORDER BY created_at any order of the rows that tie on created_at.  The  *)
(* model draws that order with \E in every query.                          *)
(***************************************************************************)
EXTENDS Integers, Sequences, FiniteSets, TLC

VARIABLES
    catalog,            \* the products table: id -> row
    resp,               \* the response of the request being answered (else NoResp)
    prev,               \* the page the client received before it, while it pages
                        \* through the results of one search (else NoResp)
    pc,                 \* position of the matching pipeline
    query_terms,        \* get_title_match_products: argument
    limit,              \* get_title_match_products: argument
    results,            \* get_title_match_products: results, then the ranked list
    seen_product_ids,   \* get_title_match_products: seen_product_ids
    queried,            \* the matching phases that queried the catalog, in order
    fetched,            \* the rows the last catalog query of the pipeline returned
    discovered,         \* the candidates in discovery order, as handed to ranking
    related,            \* the related-product lookup being answered (else NoRelated)
    db_fault,           \* the catalog query of a request that raises: its first,
                        \* second, ... (0: the catalog answers every query)
    reqs,               \* the requests the worker threads handle concurrently:
                        \* client -> the locals of its handler
    text,               \* the call of correct_typo or extract_search_terms being
                        \* answered (else NoText)
    carts,              \* the carts table, in id order: row i has id i
    cart_items,         \* the cart_items table: a set of rows
    cart_item_seq,      \* the last id the cart_items id sequence handed out
    wishlist_items,     \* the wishlist_items table (of the active wishlists)
    shop,               \* the response of the cart request being answered
                        \* (else NoShop)
    jobs,               \* the add_to_cart / move_to_cart requests in flight:
                        \* client -> the locals of its handler
    users,              \* the users table: id -> row
    now,                \* datetime.utcnow(), in minutes
    logs_activity,      \* the logs_activity table (LoginLogs), in id order
    sent_otps,          \* the sent_otps table (OTP): a set of rows
    password_reset_tokens, \* the password_reset_tokens table: token -> row
    auth                \* the response of the account request being answered
                        \* (else NoAuth)

vars == <<catalog, resp, prev, pc, query_terms, limit, results,
          seen_product_ids, queried, fetched, discovered, related, db_fault, reqs,
          text, carts, cart_items, cart_item_seq, wishlist_items, shop, jobs,
          users, now, logs_activity, sent_otps, password_reset_tokens, auth>>

endpointVars == <<resp, prev>>

matchVars == <<pc, query_terms, limit, results, seen_product_ids, queried,
               fetched, discovered>>

utilVars == <<related, db_fault, reqs, text>>

shopVars == <<carts, cart_items, cart_item_seq, wishlist_items, shop, jobs>>

accountVars == <<users, now, logs_activity, sent_otps, password_reset_tokens, auth>>

searchVars == <<catalog, endpointVars, matchVars, utilVars>>

---------------------------------------------------------------------------
(* Bounds of the model *)

\* the largest page size (limit) a request asks for
MaxLimit == 2

\* the largest offset (skip) a request asks for
MaxSkip == 3

\* the largest limit handed to get_title_match_products
MaxMatchLimit == 4

\* the latest catalog query of a request that a catalog failure hits
MaxFault == 3

\* the largest limit handed to filter_related_products, besides its default
MaxRelatedLimit == 1

---------------------------------------------------------------------------
(* Strings *)

\* str.lower() on one character
LowerChar(c) ==
    CASE c = "R" -> "r"
      [] c = "C" -> "c"
      [] c = "H" -> "h"
      [] c = "S" -> "s"
      [] OTHER -> c

\* str.lower()
Lower(s) == [i \in 1..Len(s) |-> LowerChar(s[i])]

\* str.isspace() on one character
IsSpace(c) == c = " "

\* Python's `sub in s`
Contains(s, sub) ==
    \E i \in 0..(Len(s) - Len(sub)) : SubSeq(s, i + 1, i + Len(sub)) = sub

\* str.startswith()
StartsWith(s, p) == Len(p) <= Len(s) /\ SubSeq(s, 1, Len(p)) = p

RECURSIVE LStrip(_)
LStrip(s) == IF s # <<>> /\ IsSpace(Head(s)) THEN LStrip(Tail(s)) ELSE s

RECURSIVE RStrip(_)
RStrip(s) ==
    IF s # <<>> /\ IsSpace(s[Len(s)]) THEN RStrip(SubSeq(s, 1, Len(s) - 1)) ELSE s

\* str.strip()
Strip(s) == RStrip(LStrip(s))

\* the first word of a string that does not start with whitespace
RECURSIVE FirstWord(_)
FirstWord(s) ==
    IF s = <<>> \/ IsSpace(Head(s)) THEN <<>> ELSE <<Head(s)>> \o FirstWord(Tail(s))

\* str.split(): the whitespace-delimited words, none of them empty
RECURSIVE Split(_)
Split(s) ==
    LET t == LStrip(s)
        w == FirstWord(t)
    IN  IF t = <<>> THEN <<>>
        ELSE <<w>> \o Split(SubSeq(t, Len(w) + 1, Len(t)))

\* " ".join(words)
RECURSIVE Join(_)
Join(words) ==
    IF words = <<>> THEN <<>>
    ELSE IF Len(words) = 1 THEN words[1]
    ELSE words[1] \o <<" ">> \o Join(Tail(words))

\* func.lower(column).ilike(f"%{x}%")
ILikeContains(column, x) == Contains(Lower(column), Lower(x))

\* column.contains([x]) on a JSONB array: x is an element of the array
JsonContains(array, x) == \E i \in 1..Len(array) : array[i] = x

\* cast(column, Text) of a JSONB array of strings: ["a", "b"]
RECURSIVE JsonElements(_)
JsonElements(array) ==
    IF array = <<>> THEN <<>>
    ELSE <<"\"">> \o array[1] \o <<"\"">>
         \o (IF Len(array) > 1 THEN <<",", " ">> ELSE <<>>)
         \o JsonElements(Tail(array))

JsonText(array) == <<"[">> \o JsonElements(array) \o <<"]">>

\* the elements of a sequence
Range(s) == {s[i] : i \in 1..Len(s)}

\* the sequences without repetition over S of length n
RECURSIVE InjSeqs(_, _)
InjSeqs(S, n) ==
    IF n = 0 THEN {<<>>}
    ELSE UNION {{<<x>> \o t : t \in InjSeqs(S \ {x}, n - 1)} : x \in S}

Min(a, b) == IF a <= b THEN a ELSE b

Max(a, b) == IF a >= b THEN a ELSE b

\* Python's list[a:b] for 0 <= a <= b
Slice(s, a, b) == SubSeq(s, a + 1, Min(b, Len(s)))

---------------------------------------------------------------------------
(* The catalog: models/Products.py *)

\* the rows of the products table, without the columns Init draws
ProductRows == <<
    [title |-> <<"R", "e", "d", " ", "c", "a", "p">>, description |-> <<"a", " ", "c", "a", "p">>,
     tags |-> <<<<"c", "a", "p">>>>, features |-> <<>>, rating |-> 4, price |-> 10,
     category_id |-> 1],
    [title |-> <<"R", "e", "d", " ", "c", "a", "p">>, description |-> <<"a", " ", "c", "a", "p">>,
     tags |-> <<<<"c", "a", "p">>>>, features |-> <<>>, rating |-> 4, price |-> 10,
     category_id |-> 1],
    [title |-> <<"c", "a", "p", " ", "r", "e", "d">>, description |-> <<>>,
     tags |-> <<>>, features |-> <<>>, rating |-> 0, price |-> 0,
     category_id |-> 1],
    [title |-> <<"r", "e", "d", " ", "h", "a", "t">>, description |-> <<"h", "a", "t">>,
     tags |-> <<<<"h", "a", "t">>, <<"r", "e", "d">>>>, features |-> <<<<"c", "a", "p">>>>, rating |-> 5, price |-> 7,
     category_id |-> 1],
    [title |-> <<"H", "a", "t">>, description |-> <<"a", " ", "c", "a", "p">>,
     tags |-> <<<<"c", "a", "p">>, <<"s", "u", "n">>>>, features |-> <<>>, rating |-> 2, price |-> 3,
     category_id |-> 0] >>

\* Product.id: the primary key
ProductIds == DOMAIN ProductRows

\* Product.is_active of every row: all active, or rows 2 and 4 inactive
ActiveChoices == {
    [id \in ProductIds |-> TRUE],
    [id \in ProductIds |-> id \notin {2, 4}] }

\* Product.created_at of every row: all different, or with ties
CreatedChoices == {
    [id \in ProductIds |-> id],
    [id \in ProductIds |-> IF id <= 2 THEN 2 ELSE 1] }

Product(id, active, created) ==
    [id |-> id,
     title |-> ProductRows[id].title,
     description |-> ProductRows[id].description,
     tags |-> ProductRows[id].tags,
     features |-> ProductRows[id].features,
     rating |-> ProductRows[id].rating,
     price |-> ProductRows[id].price,
     category_id |-> ProductRows[id].category_id,
     is_active |-> active[id],
     created_at |-> created[id]]

Catalogs ==
    {[id \in ProductIds |-> Product(id, active, created)] :
        active \in ActiveChoices, created \in CreatedChoices}

\* the query strings of the requests
Queries == {
    <<>>,
    <<" ">>,
    <<"c", "a", "p">>,
    <<"R", "e", "d", " ", "c", "a", "p">>,
    <<" ", "r", "e", "d", " ", " ", "C", "a", "p", " ">>,
    <<"h", "a", "t">>,
    <<"a">>,
    <<"s", "u", "n">>,
    <<"s", "u", "n", " ", "c", "a", "p">> }

\* db.query(Product).filter(cond).order_by(Product.created_at.desc()).all():
\* the rows of S by created_at descending, rows that tie in any order
OrderByCreatedDesc(S) ==
    {s \in InjSeqs(S, Cardinality(S)) :
        \A i, j \in 1..Len(s) :
            i < j => catalog[s[i]].created_at >= catalog[s[j]].created_at}

\* .offset(skip).limit(lim) on the rows of a query
OffsetLimit(rows, skip, lim) == Slice(rows, skip, skip + lim)

\* select(Product).where(cond).offset(skip).limit(lim) without ORDER BY: the
\* slice [skip : skip + lim] of the rows of S in any order, which is any
\* min(lim, |S| - skip) of the rows of S in any order
UnorderedOffsetLimit(S, skip, lim) ==
    InjSeqs(S, Min(lim, Max(Cardinality(S) - skip, 0)))

---------------------------------------------------------------------------
(* The search endpoints: routes/search.py, services/search_service.py *)

\* the keys of the response dictionaries
KeysEmptySearch == {"query", "search_type", "products", "suggestions",
                    "total_results", "processing_time_ms"}

KeysSearch == {"query", "corrected_query", "search_terms", "search_type",
               "match_statistics", "products", "suggestions", "total_results",
               "showing_results", "processing_time_ms", "note"}

KeysEmptyTitleOrExact == {"query", "products", "total_results",
                          "processing_time_ms"}

KeysTitleOrExact == {"query", "products", "total_results", "showing_results",
                     "processing_time_ms"}

KeysService == {"query", "products", "total_results", "processing_time_ms"}

\* the dictionaries returned by the `except Exception` handlers
KeysErrorSearch == {"query", "error", "products", "suggestions", "total_results",
                    "processing_time_ms"}

KeysErrorTitleOrExact == {"query", "error", "products", "total_results",
                          "processing_time_ms"}

\* no dictionary: the exception leaves the function
KeysRaised == {}

\* A response: the request it answers (endpoint, query, limit, skip), the keys
\* of the returned dictionary and the values of those this model reads (a value
\* whose key is absent is "" or 0), and db_queries, the number of catalog
\* queries the handler executed.
Response(endpoint, query, lim, skip, keys, search_type, products, total, showing, n) ==
    [endpoint |-> endpoint, query |-> query, limit |-> lim, skip |-> skip,
     keys |-> keys, search_type |-> search_type, products |-> products,
     total_results |-> total, showing_results |-> showing, db_queries |-> n]

NoResp == Response("none", <<>>, 0, 0, {}, "", <<>>, 0, 0, 0)

\* the words of query_words longer than 2 characters
LongWords(query_words) ==
    {query_words[i] : i \in {j \in 1..Len(query_words) : Len(query_words[j]) > 2}}

\* search_products_endpoint: or_(*conditions) on row p
SearchCondition(p, search_lower, query_words) ==
    \/ ILikeContains(p.title, search_lower)
    \/ ILikeContains(p.description, search_lower)
    \/ JsonContains(p.tags, search_lower)
    \/ JsonContains(p.features, search_lower)
    \/ \E word \in LongWords(query_words) :
            \/ ILikeContains(p.title, word)
            \/ ILikeContains(p.description, word)

\* SearchMatches without the filter on Product.is_active
SearchMatchesAnyStatus(query) ==
    LET search_lower == Lower(Strip(query))
        query_words == Split(search_lower)
    IN  {id \in ProductIds :
            SearchCondition(catalog[id], search_lower, query_words)}

\* search_products_endpoint: the rows its two queries filter
SearchMatches(query) ==
    LET search_lower == Lower(Strip(query))
        query_words == Split(search_lower)
    IN  {id \in ProductIds :
            /\ catalog[id].is_active = TRUE
            /\ SearchCondition(catalog[id], search_lower, query_words)}

\* search_by_title_endpoint: the rows its two queries filter
TitleMatches(query) ==
    LET search_query == Lower(Strip(query))
        query_words == Split(search_query)
    IN  {id \in ProductIds :
            /\ catalog[id].is_active = TRUE
            /\ \/ ILikeContains(catalog[id].title, search_query)
               \/ \E word \in LongWords(query_words) :
                      ILikeContains(catalog[id].title, word)}

\* exact_search_endpoint: the rows of its first, second and third query
ExactTitleMatches(search_query) ==
    {id \in ProductIds :
        catalog[id].is_active = TRUE /\ ILikeContains(catalog[id].title, search_query)}

ExactDescriptionMatches(search_query) ==
    {id \in ProductIds :
        catalog[id].is_active = TRUE
        /\ ILikeContains(catalog[id].description, search_query)}

ExactWordMatches(query_words) ==
    {id \in ProductIds :
        /\ catalog[id].is_active = TRUE
        /\ \E word \in LongWords(query_words) : ILikeContains(catalog[id].title, word)}

\* exact_search_endpoint: whether its second and its third query run
ExactRunsSecond(search_query) == ExactTitleMatches(search_query) = {}

ExactRunsThird(search_query) ==
    /\ ExactRunsSecond(search_query)
    /\ ExactDescriptionMatches(search_query) = {}
    /\ Len(Split(search_query)) > 1
    /\ LongWords(Split(search_query)) # {}

\* exact_search_endpoint: the rows of the query that fills exact_products
ExactMatches(query) ==
    LET search_query == Lower(Strip(query))
    IN  IF ~ExactRunsSecond(search_query) THEN ExactTitleMatches(search_query)
        ELSE IF ~ExactRunsThird(search_query)
             THEN ExactDescriptionMatches(search_query)
        ELSE ExactWordMatches(Split(search_query))

ExactQueries(query) ==
    LET search_query == Lower(Strip(query))
    IN  1 + (IF ExactRunsSecond(search_query) THEN 1 ELSE 0)
          + (IF ExactRunsThird(search_query) THEN 1 ELSE 0)

\* search_products (the service function): the rows its query filters
ServiceMatches(query) ==
    {id \in ProductIds :
        /\ catalog[id].is_active = TRUE
        /\ \/ ILikeContains(catalog[id].title, query)
           \/ ILikeContains(catalog[id].description, query)
           \/ ILikeContains(JsonText(catalog[id].tags), query)
           \/ ILikeContains(JsonText(catalog[id].features), query)}

\* Raises, had only the first catalog query been inside the try block
RaisesInFirstQuery(n) == db_fault = 1

\* one of the n catalog queries a handler executes raises
Raises(n) == db_fault \in 1..n

\* IsEmptyQuery without the strip()
IsEmptyQueryNoStrip(query) == query = <<>>

\* `not query or query.strip() == ""`
IsEmptyQuery(query) == query = <<>> \/ Strip(query) = <<>>

\* GET /search
search_products_endpoint(query, lim, skip) ==
    /\ resp = NoResp
    /\ IF IsEmptyQuery(query)
       THEN resp' = Response("search", query, lim, skip, KeysEmptySearch,
                             "empty_query", <<>>, 0, 0, 0)
       ELSE IF Raises(2)
       THEN resp' = Response("search", query, lim, skip, KeysErrorSearch,
                             "", <<>>, 0, 0, db_fault)
       ELSE \E rows \in OrderByCreatedDesc(SearchMatches(query)) :
               LET products == OffsetLimit(rows, skip, lim)
                   total_count == Cardinality(SearchMatches(query))
               IN  resp' = Response("search", query, lim, skip, KeysSearch,
                                    "simple_search", products, total_count,
                                    Len(products), 2)

\* GET /search/title
search_by_title_endpoint(query, lim, skip) ==
    /\ resp = NoResp
    /\ IF IsEmptyQuery(query)
       THEN resp' = Response("title", query, lim, skip, KeysEmptyTitleOrExact,
                             "", <<>>, 0, 0, 0)
       ELSE IF Raises(2)
       THEN resp' = Response("title", query, lim, skip, KeysErrorTitleOrExact,
                             "", <<>>, 0, 0, db_fault)
       ELSE \E rows \in OrderByCreatedDesc(TitleMatches(query)) :
               LET products == OffsetLimit(rows, skip, lim)
                   total_count == Cardinality(TitleMatches(query))
               IN  resp' = Response("title", query, lim, skip, KeysTitleOrExact,
                                    "", products, total_count, Len(products), 2)

\* GET /search/exact
exact_search_endpoint(query, lim, skip) ==
    /\ resp = NoResp
    /\ IF IsEmptyQuery(query)
       THEN resp' = Response("exact", query, lim, skip, KeysEmptyTitleOrExact,
                             "", <<>>, 0, 0, 0)
       ELSE IF Raises(ExactQueries(query))
       THEN resp' = Response("exact", query, lim, skip, KeysErrorTitleOrExact,
                             "", <<>>, 0, 0, db_fault)
       ELSE \E exact_products \in OrderByCreatedDesc(ExactMatches(query)) :
               LET products == Slice(exact_products, skip, skip + lim)
                   total_count == Len(exact_products)
               IN  resp' = Response("exact", query, lim, skip, KeysTitleOrExact,
                                    "", products, total_count, Len(products),
                                    ExactQueries(query))

\* services/search_service.py: search_products(db, query, limit, skip)
search_products(query, lim, skip) ==
    /\ resp = NoResp
    /\ IF Raises(1)
       THEN resp' = Response("service", query, lim, skip, KeysRaised, "",
                             <<>>, 0, 0, db_fault)
       ELSE \E products \in UnorderedOffsetLimit(ServiceMatches(query), skip, lim) :
               resp' = Response("service", query, lim, skip, KeysService, "",
                                products, Len(products), 0, 1)

---------------------------------------------------------------------------
(* Matching and ranking: services/search_utils.py *)

\* the term lists handed to the matching helpers
TermLists == {
    <<>>,
    << <<"c", "a", "p">> >>,
    << <<"R", "e", "d">>, <<"c", "a", "p">> >>,
    << <<"c", "a", "p">>, <<"c", "a", "p">> >>,
    << <<"a">> >>,
    << <<"s", "u", "n">> >>,
    << <<"S", "u", "n">> >> }

\* get_other_field_products: the default of its limit parameter
OtherFieldLimit == 50

\* db.query(Product).filter(cond).limit(n).all(): no ORDER BY, so any n of the
\* rows of S (all of them when S has fewer), in any order
Rows(S, n) == InjSeqs(S, Min(Max(n, 0), Cardinality(S)))

\* SearchResult(product, match_type, matched_words), score = 0
SearchResult(id, match_type, matched_words) ==
    [id |-> id, match_type |-> match_type, matched_words |-> matched_words,
     score |-> 0]

\* [f(x) for x in s if keep(x)]
RECURSIVE SelectTerms(_, _)
SelectTerms(terms, title_lower) ==
    IF terms = <<>> THEN <<>>
    ELSE (IF Contains(title_lower, Lower(Head(terms))) THEN <<Head(terms)>> ELSE <<>>)
         \o SelectTerms(Tail(terms), title_lower)

find_matching_words_in_title(title, terms) ==
    IF title = <<>> \/ terms = <<>> THEN <<>>
    ELSE SelectTerms(terms, Lower(title))

\* the number of i in range(len(terms) - 1) whose two-word phrase is in the title
ConsecutivePairs(title_lower, terms) ==
    Cardinality({i \in 1..(Len(terms) - 1) :
        Contains(title_lower, Lower(terms[i]) \o <<" ">> \o Lower(terms[i + 1]))})

\* calculate_title_match_score with a penalty of 20 for every term that did not
\* match, and without the final max(score, 0)
TitleMatchScoreWithPenalty(title, terms, matched_terms) ==
    IF title = <<>> \/ terms = <<>> THEN 0
    ELSE LET title_lower == Lower(title)
             ratio == (100 * Len(matched_terms)) \div Len(terms)
             phrase == IF Contains(title_lower, Join([i \in 1..Len(terms) |-> Lower(terms[i])]))
                       THEN 50 ELSE 0
             pairs == 30 * ConsecutivePairs(title_lower, terms)
             start == IF StartsWith(title_lower, Lower(terms[1])) THEN 40 ELSE 0
         IN  ratio + phrase + pairs + start - 20 * (Len(terms) - Len(matched_terms))

calculate_title_match_score(title, terms, matched_terms) ==
    IF title = <<>> \/ terms = <<>> THEN 0
    ELSE LET title_lower == Lower(title)
             ratio == (100 * Len(matched_terms)) \div Len(terms)
             phrase == IF Contains(title_lower, Join([i \in 1..Len(terms) |-> Lower(terms[i])]))
                       THEN 50 ELSE 0
             pairs == 30 * ConsecutivePairs(title_lower, terms)
             start == IF Contains(title_lower, Lower(terms[1]))
                         /\ StartsWith(title_lower, Lower(terms[1]))
                      THEN 40 ELSE 0
         IN  Max(ratio + phrase + pairs + start, 0)

\* AddMatches without the test `product.id not in seen_product_ids`
RECURSIVE AddMatchesNoSeenCheck(_, _, _, _, _)
AddMatchesNoSeenCheck(res, seen, rows, match_type, terms) ==
    IF rows = <<>> THEN res
    ELSE AddMatchesNoSeenCheck(
             Append(res, SearchResult(Head(rows), match_type,
                 find_matching_words_in_title(catalog[Head(rows)].title, terms))),
             seen, Tail(rows), match_type, terms)

\* AddMatches that gives a row already seen the match_type of the later phase
RECURSIVE AddMatchesOverwrite(_, _, _, _, _)
AddMatchesOverwrite(res, seen, rows, match_type, terms) ==
    IF rows = <<>> THEN res
    ELSE LET id == Head(rows)
         IN  IF id \notin seen
             THEN AddMatchesOverwrite(
                      Append(res, SearchResult(id, match_type,
                          find_matching_words_in_title(catalog[id].title, terms))),
                      seen \cup {id}, Tail(rows), match_type, terms)
             ELSE AddMatchesOverwrite(
                      [i \in 1..Len(res) |->
                          IF res[i].id = id
                          THEN [res[i] EXCEPT !.match_type = match_type]
                          ELSE res[i]],
                      seen, Tail(rows), match_type, terms)

\* the loop over the rows of one phase: a row whose id is not in seen is
\* appended with the phase's match_type, a row already seen is skipped
RECURSIVE AddMatches(_, _, _, _, _)
AddMatches(res, seen, rows, match_type, terms) ==
    IF rows = <<>> THEN res
    ELSE LET id == Head(rows)
         IN  IF id \notin seen
             THEN AddMatches(
                      Append(res, SearchResult(id, match_type,
                          find_matching_words_in_title(catalog[id].title, terms))),
                      seen \cup {id}, Tail(rows), match_type, terms)
             ELSE AddMatches(res, seen, Tail(rows), match_type, terms)

\* the ids of a list of SearchResult
Ids(res) == {res[i].id : i \in 1..Len(res)}

\* query_terms_lower, and the terms the conditions of phases 2 and 3 are built of
ConditionTerms(terms) ==
    {Lower(terms[i]) : i \in {j \in 1..Len(terms) : Len(terms[j]) > 1}}

\* phase 1: the rows whose title holds the phrase
PhraseMatches(terms) ==
    {id \in ProductIds :
        catalog[id].is_active = TRUE
        /\ ILikeContains(catalog[id].title, Lower(Join(terms)))}

\* phase 2: the rows whose title holds every term
AllTermsMatches(terms) ==
    {id \in ProductIds :
        catalog[id].is_active = TRUE
        /\ \A term \in ConditionTerms(terms) : ILikeContains(catalog[id].title, term)}

\* phase 3: the rows whose title holds some term
SomeTermsMatches(terms) ==
    {id \in ProductIds :
        catalog[id].is_active = TRUE
        /\ \E term \in ConditionTerms(terms) : ILikeContains(catalog[id].title, term)}

\* BelowTarget with a target of twice the limit
BelowTwiceTheLimit(res, lim) == Len(res) < 2 * lim

\* `if len(results) < limit:` before phases 2 and 3
BelowTarget(res, lim) == Len(res) < lim

\* `if conditions:` / `if or_conditions:`
HasConditions(terms) == ConditionTerms(terms) # {}

\* get_other_field_products: the terms its conditions are built of
OtherFieldTerms(terms) == {terms[i] : i \in {j \in 1..Len(terms) : Len(terms[j]) >= 2}}

\* get_other_field_products: the rows its query filters
OtherFieldMatches(terms, exclude_ids) ==
    {id \in ProductIds :
        /\ catalog[id].is_active = TRUE
        /\ \E term \in OtherFieldTerms(terms) :
              \/ ILikeContains(catalog[id].description, Lower(term))
              \/ JsonContains(catalog[id].tags, term)
              \/ JsonContains(catalog[id].features, term)
        /\ id \notin exclude_ids}

\* get_other_field_products: the list it returns for the rows other_products
OtherFieldResults(other_products, terms) ==
    [i \in 1..Len(other_products) |->
        SearchResult(other_products[i], "other_field", terms)]

\* rank_products_by_relevance: type_scores.get(match_type, 0)
TypeScore(match_type) ==
    CASE match_type = "title_exact_phrase" -> 200
      [] match_type = "title_all_words" -> 150
      [] match_type = "title_some_words" -> 100
      [] match_type = "title_single_word" -> 50
      [] match_type = "other_field" -> 40
      [] match_type = "related" -> 10
      [] match_type = "broad_match" -> 5
      [] OTHER -> 0

\* rank_products_by_relevance: result.matched_words or find_matching_words_in_title(..)
MatchedTerms(result, terms) ==
    IF result.matched_words # <<>> THEN result.matched_words
    ELSE find_matching_words_in_title(catalog[result.id].title, terms)

\* MatchedTermsBonus that counts every matched term once
MatchedTermsBonusDistinct(result, terms) ==
    Cardinality(Range(MatchedTerms(result, terms))) * 10

\* rank_products_by_relevance: the bonus for the number of matched terms
MatchedTermsBonus(result, terms) == Len(MatchedTerms(result, terms)) * 10

\* rank_products_by_relevance: the popularity factors
RatingBonus(p) == IF p.rating # 0 THEN p.rating * 5 ELSE 0

PriceBonus(p) == IF p.price # 0 /\ p.price > 0 THEN 5 ELSE 0

\* rank_products_by_relevance: the score of one result
Score(result, terms) ==
    TypeScore(result.match_type)
    + calculate_title_match_score(catalog[result.id].title, terms,
                                  MatchedTerms(result, terms))
    + MatchedTermsBonus(result, terms)
    + RatingBonus(catalog[result.id])
    + PriceBonus(catalog[result.id])

Scored(res, terms) ==
    [i \in 1..Len(res) |-> [res[i] EXCEPT !.score = Score(res[i], terms)]]

\* InsertByScore that puts x before the elements that score as much as x
RECURSIVE InsertBeforeTies(_, _)
InsertBeforeTies(sorted, x) ==
    IF sorted = <<>> THEN <<x>>
    ELSE IF Head(sorted).score > x.score
         THEN <<Head(sorted)>> \o InsertBeforeTies(Tail(sorted), x)
         ELSE <<x>> \o sorted

\* x put into a list sorted by score descending, behind the elements that
\* score as much as x
RECURSIVE InsertByScore(_, _)
InsertByScore(sorted, x) ==
    IF sorted = <<>> THEN <<x>>
    ELSE IF Head(sorted).score >= x.score
         THEN <<Head(sorted)>> \o InsertByScore(Tail(sorted), x)
         ELSE <<x>> \o sorted

\* sorted(products, key=lambda x: x.score, reverse=True): a stable sort
RECURSIVE SortedByScoreDesc(_)
SortedByScoreDesc(res) ==
    IF res = <<>> THEN <<>>
    ELSE InsertByScore(SortedByScoreDesc(SubSeq(res, 1, Len(res) - 1)), res[Len(res)])

rank_products_by_relevance(res, terms) == SortedByScoreDesc(Scored(res, terms))

---------------------------------------------------------------------------
(* The matching pipeline, one action per catalog query *)

\* get_title_match_products(db, query_terms, limit): the early return and the
\* initialisation of results and seen_product_ids
StartMatching(terms, lim) ==
    /\ pc \in {"idle", "done"}
    /\ query_terms' = terms
    /\ limit' = lim
    /\ results' = <<>>
    /\ seen_product_ids' = {}
    /\ queried' = <<>>
    /\ fetched' = <<>>
    /\ discovered' = <<>>
    /\ pc' = IF terms = <<>> THEN "other_field" ELSE "phase1"

\* PHASE 1: exact phrase match
Phase1 ==
    /\ pc = "phase1"
    /\ \E phrase_matches \in Rows(PhraseMatches(query_terms), limit \div 2) :
          /\ results' = AddMatches(results, seen_product_ids, phrase_matches,
                                   "title_exact_phrase", query_terms)
          /\ seen_product_ids' = seen_product_ids \cup Range(phrase_matches)
          /\ fetched' = phrase_matches
    /\ queried' = Append(queried, "title_exact_phrase")
    /\ pc' = "phase2"
    /\ UNCHANGED <<query_terms, limit, discovered>>

\* PHASE 2: all query terms appear somewhere in the title
Phase2 ==
    /\ pc = "phase2"
    /\ IF BelowTarget(results, limit) /\ HasConditions(query_terms)
       THEN /\ \E all_terms_query \in Rows(AllTermsMatches(query_terms),
                                           limit - Len(results)) :
                  /\ results' = AddMatches(results, seen_product_ids, all_terms_query,
                                           "title_all_words", query_terms)
                  /\ seen_product_ids' = seen_product_ids \cup Range(all_terms_query)
                  /\ fetched' = all_terms_query
            /\ queried' = Append(queried, "title_all_words")
       ELSE UNCHANGED <<results, seen_product_ids, queried, fetched>>
    /\ pc' = "phase3"
    /\ UNCHANGED <<query_terms, limit, discovered>>

\* PHASE 3: some query terms in the title
Phase3 ==
    /\ pc = "phase3"
    /\ IF BelowTarget(results, limit) /\ HasConditions(query_terms)
       THEN /\ \E some_matches \in Rows(SomeTermsMatches(query_terms),
                                        limit - Len(results)) :
                  /\ results' = AddMatches(results, seen_product_ids, some_matches,
                                           "title_some_words", query_terms)
                  /\ seen_product_ids' = seen_product_ids \cup Range(some_matches)
                  /\ fetched' = some_matches
            /\ queried' = Append(queried, "title_some_words")
       ELSE UNCHANGED <<results, seen_product_ids, queried, fetched>>
    /\ pc' = "other_field"
    /\ UNCHANGED <<query_terms, limit, discovered>>

\* the exclude_ids handed to get_other_field_products: the ids of the title
\* matches ("Exclude products that already matched in title")
ExcludeIds == Ids(results)

\* get_other_field_products(db, query_terms, exclude_ids) with the default limit
OtherField ==
    /\ pc = "other_field"
    /\ IF query_terms # <<>> /\ OtherFieldTerms(query_terms) # {}
       THEN /\ \E other_products \in
                    Rows(OtherFieldMatches(query_terms, ExcludeIds), OtherFieldLimit) :
                  /\ results' = results \o OtherFieldResults(other_products, query_terms)
                  /\ fetched' = other_products
            /\ queried' = Append(queried, "other_field")
       ELSE UNCHANGED <<results, queried, fetched>>
    /\ pc' = "rank"
    /\ UNCHANGED <<query_terms, limit, seen_product_ids, discovered>>

\* rank_products_by_relevance(products, query_terms)
Rank ==
    /\ pc = "rank"
    /\ discovered' = results
    /\ results' = rank_products_by_relevance(results, query_terms)
    /\ pc' = "done"
    /\ UNCHANGED <<query_terms, limit, seen_product_ids, queried, fetched>>

---------------------------------------------------------------------------
(* Typo correction and term extraction: services/search_utils.py.  The     *)
(* scorers of rapidfuzz are computed: fuzz.ratio is the normalised Indel   *)
(* similarity 200 * lcs / (len1 + len2), fuzz.partial_ratio the best       *)
(* fuzz.ratio of the shorter string against the windows of its length in   *)
(* the longer string (cut at both ends of it).  A score is the fraction    *)
(* <<numerator, denominator>> of 100, so that no rounding enters.          *)

\* the query strings handed to correct_typo and extract_search_terms
TextQueries == {
    <<>>,
    <<" ">>,
    <<"c", "p", "a">>,
    <<"c", "a">>,
    <<"x", "y", "z">>,
    <<"a", " ", " ", "c", "p", "a">>,
    <<"r", "e", "d", ",", "c", "a", "p">>,
    <<"w", "i", "-", "f", "i", " ", "a", "_", "b">>,
    <<"t", "h", "e", " ", "c", "a", "p", " ", "c", "a", "p">>,
    <<"d", "o", "n", "'", "t">> }

\* the reference titles handed to correct_typo
TypoCandidates == {
    <<>>,
    << <<"R", "e", "d", " ", "c", "a", "p">>, <<"h", "a", "t">> >> }

\* no call is being answered
NoText == [fn |-> "none", query |-> <<>>, candidates |-> <<>>, out |-> <<>>]

\* the length of the longest common subsequence
RECURSIVE LCS(_, _)
LCS(s, t) ==
    IF s = <<>> \/ t = <<>> THEN 0
    ELSE IF Head(s) = Head(t) THEN 1 + LCS(Tail(s), Tail(t))
    ELSE Max(LCS(Tail(s), t), LCS(s, Tail(t)))

\* fuzz.ratio(s, t) / 100
Ratio(s, t) ==
    IF s = <<>> /\ t = <<>> THEN <<1, 1>>
    ELSE <<2 * LCS(s, t), Len(s) + Len(t)>>

\* score a is lower than score b
ScoreLess(a, b) == a[1] * b[2] < b[1] * a[2]

\* the windows of length n of string t, cut at both ends of t
Windows(t, n) ==
    {SubSeq(t, Max(1, i), Min(Len(t), i + n - 1)) : i \in (2 - n)..Len(t)}

\* fuzz.partial_ratio(s, t) / 100
PartialRatio(s, t) ==
    LET short == IF Len(s) <= Len(t) THEN s ELSE t
        long == IF Len(s) <= Len(t) THEN t ELSE s
    IN  IF short = <<>> THEN (IF long = <<>> THEN <<1, 1>> ELSE <<0, 1>>)
        ELSE LET scores == {Ratio(short, w) : w \in Windows(long, Len(short))}
             IN  CHOOSE a \in scores : \A b \in scores : ~ScoreLess(a, b)

\* the score of the word against every choice, under fuzz.partial_ratio and
\* under fuzz.ratio
PartialScores(word, choices) ==
    [j \in 1..Len(choices) |-> PartialRatio(word, choices[j])]

RatioScores(word, choices) ==
    [j \in 1..Len(choices) |-> Ratio(word, choices[j])]

\* process.extractOne(word, choices, scorer), given the scores of the choices:
\* the index of the first choice with the best score, 0 (None) when there is
\* no choice
ExtractOne(scores) ==
    IF scores = <<>> THEN 0
    ELSE CHOOSE i \in 1..Len(scores) :
            /\ \A j \in 1..Len(scores) : ~ScoreLess(scores[i], scores[j])
            /\ \A j \in 1..(i - 1) : ScoreLess(scores[j], scores[i])

\* `match[1] > 60`
AboveThreshold(score) == 100 * score[1] > 60 * score[2]

\* IsShortWord, were no word skipped
NoWordIsShort(word) == FALSE

\* `len(word) <= 2`
IsShortWord(word) == Len(word) <= 2

\* correct_typo: the body of the loop over query_words
CorrectWord(word, candidates) ==
    IF IsShortWord(word) THEN word
    ELSE LET match == ExtractOne(PartialScores(word, candidates))
         IN  IF match # 0 /\ AboveThreshold(PartialRatio(word, candidates[match]))
             THEN LET title_words == Split(candidates[match])
                      best_word == ExtractOne(RatioScores(word, title_words))
                  IN  IF best_word # 0 THEN title_words[best_word] ELSE word
             ELSE word

\* ReturnsQueryAsIs, were the reference set not tested
EmptyQueryOnly(query, candidates) == query = <<>>

\* `if not query or not candidates`
ReturnsQueryAsIs(query, candidates) == query = <<>> \/ candidates = <<>>

\* correct_typo(query, candidates)
correct_typo(query, candidates) ==
    IF ReturnsQueryAsIs(query, candidates) THEN query
    ELSE LET query_words == Split(query)
         IN  Join([i \in 1..Len(query_words) |->
                      CorrectWord(query_words[i], candidates)])

\* the characters of the model's alphabet that [^\w\s\-] matches
NonWordChars == {",", "'"}

\* KeepsChar, were the hyphen replaced as well
KeepsCharButHyphen(c) == c \notin NonWordChars \cup {"-"}

\* re.sub(r'[^\w\s\-]', ' ', query) leaves character c in place
KeepsChar(c) == c \notin NonWordChars

\* re.sub(r'[^\w\s\-]', ' ', query)
Cleaned(query) ==
    [i \in 1..Len(query) |-> IF KeepsChar(query[i]) THEN query[i] ELSE " "]

\* [word for word in words if len(word) > 1]
RECURSIVE LongerThanOne(_)
LongerThanOne(words) ==
    IF words = <<>> THEN <<>>
    ELSE (IF Len(Head(words)) > 1 THEN <<Head(words)>> ELSE <<>>)
         \o LongerThanOne(Tail(words))

\* extract_search_terms(query)
extract_search_terms(query) ==
    IF query = <<>> THEN <<>>
    ELSE LongerThanOne(Split(Cleaned(query)))

\* a call of correct_typo
CorrectTypo(query, candidates) ==
    /\ text = NoText
    /\ text' = [fn |-> "correct_typo", query |-> query, candidates |-> candidates,
                out |-> correct_typo(query, candidates)]

\* a call of extract_search_terms
ExtractTerms(query) ==
    /\ text = NoText
    /\ text' = [fn |-> "extract_search_terms", query |-> query,
                candidates |-> <<>>, out |-> extract_search_terms(query)]

\* the caller takes the result
TextReturn ==
    /\ text # NoText
    /\ text' = NoText

---------------------------------------------------------------------------
(* The related-product lookup: services/search_utils.py *)

\* filter_related_products: limit=10
RelatedDefaultLimit == 10

\* the limits handed to filter_related_products
RelatedLimits == {RelatedDefaultLimit} \cup 0..MaxRelatedLimit

\* no lookup is being answered; top = 0 stands for top_product = None
NoRelated == [called |-> FALSE, top |-> 0, limit |-> 0, products |-> <<>>]

\* top_product.tags[:5], those longer than 2 characters
RelatedTags(top) ==
    {top.tags[i] : i \in {j \in 1..Min(5, Len(top.tags)) : Len(top.tags[j]) > 2}}

\* top_product.title.split()[:3], the words longer than 3 characters
RelatedTitleWords(top) ==
    LET title_words == Split(top.title)
    IN  {title_words[i] :
            i \in {j \in 1..Min(3, Len(title_words)) : Len(title_words[j]) > 3}}

\* filter_related_products: or_(*conditions) on row p
RelatedCondition(p, top) ==
    \/ top.category_id # 0 /\ p.category_id = top.category_id
    \/ \E tag \in RelatedTags(top) : ILikeContains(JsonText(p.tags), tag)
    \/ \E word \in RelatedTitleWords(top) : ILikeContains(p.title, word)

\* filter_related_products: `if not conditions`
NoRelatedConditions(top) ==
    /\ top.category_id = 0
    /\ RelatedTags(top) = {}
    /\ RelatedTitleWords(top) = {}

\* RelatedMatches without the filter Product.id != top_product.id
RelatedMatchesWithSource(top) ==
    {id \in ProductIds :
        /\ catalog[id].is_active = TRUE
        /\ RelatedCondition(catalog[id], top)}

\* filter_related_products: the rows related_query filters
RelatedMatches(top) ==
    {id \in ProductIds :
        /\ id # top.id
        /\ catalog[id].is_active = TRUE
        /\ RelatedCondition(catalog[id], top)}

\* filter_related_products(db, top_product, limit): the lists it can return
filter_related_products(top_id, lim) ==
    IF top_id = 0 THEN {<<>>}
    ELSE IF NoRelatedConditions(catalog[top_id]) THEN {<<>>}
    ELSE Rows(RelatedMatches(catalog[top_id]), lim)

\* a call of filter_related_products
RelatedLookup(top_id, lim) ==
    /\ related = NoRelated
    /\ \E rows \in filter_related_products(top_id, lim) :
          related' = [called |-> TRUE, top |-> top_id, limit |-> lim, products |-> rows]

\* the caller takes the list
RelatedReturn ==
    /\ related # NoRelated
    /\ related' = NoRelated

\* get_title_match_products and the helpers after it have returned: their
\* locals are gone
Finish ==
    /\ pc = "done"
    /\ pc' = "idle"
    /\ query_terms' = <<>>
    /\ limit' = 0
    /\ results' = <<>>
    /\ seen_product_ids' = {}
    /\ queried' = <<>>
    /\ fetched' = <<>>
    /\ discovered' = <<>>

---------------------------------------------------------------------------
(* Concurrent requests: the handlers of routes/search.py are plain `def`   *)
(* functions, which the framework runs in worker threads, each with its    *)
(* own locals and its own database session (db_dependency).  One action    *)
(* per catalog query of a handler.                                         *)

\* the clients whose requests are in flight together
Clients == {"c1", "c2"}

\* the requests they send: endpoint, query, limit, skip
ConcRequests == {
    <<"search", <<"c", "a", "p">>, 2, 0>>,
    <<"search", <<"s", "u", "n">>, 1, 0>>,
    <<"title", <<"h", "a", "t">>, 1, 1>>,
    <<"exact", <<"s", "u", "n", " ", "c", "a", "p">>, 2, 0>>,
    <<"exact", <<" ">>, 1, 0>> }

\* the locals of a handler that is not running
NoReq == [endpoint |-> "none", query |-> <<>>, limit |-> 0, skip |-> 0,
          pc |-> "idle", conditions |-> {}, products |-> <<>>, response |-> NoResp]

\* ConditionsOf, were `conditions` one list of the module that every
\* request appends to
ConditionsSharedByRequests(c) == UNION {reqs[d].conditions : d \in Clients}

\* the list `conditions` the catalog queries of client c's handler read: a
\* local of the handler; it holds the queries whose conditions were appended
ConditionsOf(c) == reqs[c].conditions

\* the rows that or_(*conditions) filters in the handler of client c
ConditionMatches(c) ==
    CASE reqs[c].endpoint = "search" ->
            UNION {SearchMatches(q) : q \in ConditionsOf(c)}
      [] reqs[c].endpoint = "title" ->
            UNION {TitleMatches(q) : q \in ConditionsOf(c)}
      [] reqs[c].endpoint = "exact" ->
            UNION {ExactWordMatches(Split(Lower(Strip(q)))) : q \in ConditionsOf(c)}
      [] OTHER -> {}

\* the request arrives and its handler runs up to its first catalog query
Arrive(c, endpoint, query, lim, skip) ==
    /\ reqs[c].pc = "idle"
    /\ reqs' = [reqs EXCEPT ![c] =
          IF IsEmptyQuery(query)
          THEN [NoReq EXCEPT !.endpoint = endpoint, !.query = query, !.limit = lim,
                             !.skip = skip, !.pc = "done",
                             !.response = Response(endpoint, query, lim, skip,
                                 IF endpoint = "search" THEN KeysEmptySearch
                                 ELSE KeysEmptyTitleOrExact,
                                 IF endpoint = "search" THEN "empty_query" ELSE "",
                                 <<>>, 0, 0, 0)]
          ELSE [NoReq EXCEPT !.endpoint = endpoint, !.query = query, !.limit = lim,
                             !.skip = skip, !.conditions = {query},
                             !.pc = IF endpoint = "exact" THEN "first" ELSE "page"]]

\* GET /search, GET /search/title: the query that fills `products`
PageQuery(c) ==
    /\ reqs[c].pc = "page"
    /\ \E rows \in OrderByCreatedDesc(ConditionMatches(c)) :
          reqs' = [reqs EXCEPT ![c].products =
                                  OffsetLimit(rows, reqs[c].skip, reqs[c].limit),
                               ![c].pc = "count"]

\* GET /search, GET /search/title: the query that fills `total_count`, and
\* the response
CountQuery(c) ==
    LET r == reqs[c]
        total_count == Cardinality(ConditionMatches(c))
    IN  /\ r.pc = "count"
        /\ reqs' = [reqs EXCEPT ![c].pc = "done", ![c].response =
              IF r.endpoint = "search"
              THEN Response("search", r.query, r.limit, r.skip, KeysSearch,
                            "simple_search", r.products, total_count,
                            Len(r.products), 2)
              ELSE Response("title", r.query, r.limit, r.skip, KeysTitleOrExact,
                            "", r.products, total_count, Len(r.products), 2)]

\* GET /search/exact: the response, from the rows of the n-th and last query
ExactResponse(r, exact_products, n) ==
    LET products == Slice(exact_products, r.skip, r.skip + r.limit)
    IN  Response("exact", r.query, r.limit, r.skip, KeysTitleOrExact, "",
                 products, Len(exact_products), Len(products), n)

\* GET /search/exact: the exact phrase in the title
ExactFirst(c) ==
    LET r == reqs[c]
        search_query == Lower(Strip(r.query))
    IN  /\ r.pc = "first"
        /\ \E rows \in OrderByCreatedDesc(ExactTitleMatches(search_query)) :
              reqs' = IF rows = <<>>
                      THEN [reqs EXCEPT ![c].pc = "second"]
                      ELSE [reqs EXCEPT ![c].pc = "done",
                                        ![c].response = ExactResponse(r, rows, 1)]

\* GET /search/exact: the exact phrase in the description
ExactSecond(c) ==
    LET r == reqs[c]
        search_query == Lower(Strip(r.query))
        query_words == Split(search_query)
    IN  /\ r.pc = "second"
        /\ \E rows \in OrderByCreatedDesc(ExactDescriptionMatches(search_query)) :
              reqs' = IF rows = <<>> /\ Len(query_words) > 1 /\ LongWords(query_words) # {}
                      THEN [reqs EXCEPT ![c].pc = "third"]
                      ELSE [reqs EXCEPT ![c].pc = "done",
                                        ![c].response = ExactResponse(r, rows, 2)]

\* GET /search/exact: word by word in the title
ExactThird(c) ==
    LET r == reqs[c]
    IN  /\ r.pc = "third"
        /\ \E rows \in OrderByCreatedDesc(ConditionMatches(c)) :
              reqs' = [reqs EXCEPT ![c].pc = "done",
                                   ![c].response = ExactResponse(r, rows, 3)]

\* the handler returns the response: its locals are gone
Leave(c) ==
    /\ reqs[c].pc = "done"
    /\ reqs' = [reqs EXCEPT ![c] = NoReq]

---------------------------------------------------------------------------
(* The cart: routes/cart.py, and move_to_cart of routes/wishlist.py.        *)
(* update_cart_item, delete_cart_item and toggle_cart_status run one query  *)
(* and one commit and are one step each.  add_to_cart and move_to_cart run  *)
(* several queries and commits; requests handled by different workers on    *)
(* their own sessions interleave between them, so each is a step of its     *)
(* own, with the locals of the handler kept per client.                     *)

\* bounds: the quantities a request names, the rows of carts, the ids of
\* cart_items
MaxQuantity == 2

MaxCarts == 2

MaxCartItems == 2

\* user["user_id"] of the access tokens the cart requests carry
CartUsers == {1, 2}

\* the products the cart requests name
CartProducts == {1, 2}

\* Product.instock of every row; no cart operation changes it
instock == [id \in ProductIds |-> IF id = 1 THEN 2 ELSE 1]

\* WishlistItem joined with its Wishlist: the row add_to_wishlist stored
WishlistRows == {
    [id |-> 1, user_id |-> 1, is_active |-> TRUE, product_id |-> 1, quantity |-> 1] }

\* the wishlist items the requests name
WishlistItemIds == {1, 2}

NoShop == [op |-> "none"]

NoJob == [op |-> "none"]

\* Cart.user_id == user_id, Cart.is_active == True
ActiveCartsOf(user_id) ==
    {i \in 1..Len(carts) : carts[i].user_id = user_id /\ carts[i].is_active = TRUE}

\* the carts the items of every user may belong to, were ownership not tested
CartsOfAnyone(user_id) == 1..Len(carts)

\* the carts the join of update_cart_item and delete_cart_item admits
CartsJoined(user_id) == ActiveCartsOf(user_id)

\* db.query(CartItem).join(Cart, ...).filter(CartItem.id == cart_item_id,
\*     Cart.user_id == user_id, Cart.is_active == True)
OwnCartItems(user_id, cart_item_id) ==
    {it \in cart_items : it.id = cart_item_id /\ it.cart_id \in CartsJoined(user_id)}

ShopResponse(op, user_id, target, status) ==
    [op |-> op, user_id |-> user_id, target |-> target, status |-> status]

\* PUT /cart/update/{cart_item_id}
update_cart_item(user_id, cart_item_id, quantity) ==
    /\ shop = NoShop
    /\ IF OwnCartItems(user_id, cart_item_id) = {}
       THEN /\ shop' = ShopResponse("update", user_id, cart_item_id, 404)
            /\ UNCHANGED cart_items
       ELSE \E cart_item \in OwnCartItems(user_id, cart_item_id) :
              /\ cart_items' = (cart_items \ {cart_item})
                                  \cup {[cart_item EXCEPT !.quantity = quantity]}
              /\ shop' = ShopResponse("update", user_id, cart_item_id, 200)
    /\ UNCHANGED <<carts, cart_item_seq, wishlist_items, jobs>>

\* DELETE /cart/delete/{cart_item_id}
delete_cart_item(user_id, cart_item_id) ==
    /\ shop = NoShop
    /\ IF OwnCartItems(user_id, cart_item_id) = {}
       THEN /\ shop' = ShopResponse("delete", user_id, cart_item_id, 404)
            /\ UNCHANGED cart_items
       ELSE \E cart_item \in OwnCartItems(user_id, cart_item_id) :
              /\ cart_items' = cart_items \ {cart_item}
              /\ shop' = ShopResponse("delete", user_id, cart_item_id, 200)
    /\ UNCHANGED <<carts, cart_item_seq, wishlist_items, jobs>>

\* PUT /cart/toggle/{cart_id}: any logged-in user, the role is not checked
toggle_cart_status(user_id, cart_id, is_active) ==
    /\ shop = NoShop
    /\ IF cart_id \notin 1..Len(carts)
       THEN /\ shop' = ShopResponse("toggle", user_id, cart_id, 404)
            /\ UNCHANGED carts
       ELSE /\ carts' = [carts EXCEPT ![cart_id].is_active = is_active]
            /\ shop' = ShopResponse("toggle", user_id, cart_id, 200)
    /\ UNCHANGED <<cart_items, cart_item_seq, wishlist_items, jobs>>

\* the handler returns the response
ShopReturn ==
    /\ shop # NoShop
    /\ shop' = NoShop
    /\ UNCHANGED <<carts, cart_items, cart_item_seq, wishlist_items, jobs>>

\* the locals of add_to_cart and move_to_cart
Job(op, user_id, product_id, quantity, wishlist_item_id) ==
    [op |-> op, user_id |-> user_id, product_id |-> product_id,
     quantity |-> quantity, wishlist_item_id |-> wishlist_item_id,
     cart |-> 0, cart_item |-> 0, loaded |-> 0, status |-> 0, pc |-> "arrived"]

\* raise HTTPException / return: the handler is left with this status
Answer(job, status) == [job EXCEPT !.status = status, !.pc = "done"]

\* db.query(Cart).filter(Cart.user_id == user_id, Cart.is_active == True).first():
\* any of the active carts of the user, 0 (None) when there is none
CartLookup(user_id) ==
    IF ActiveCartsOf(user_id) = {} THEN {0} ELSE ActiveCartsOf(user_id)

\* `if not cart:` decides whether the handler creates a cart
AfterCartLookup(cart) == IF cart = 0 THEN "create" ELSE "lookup"

\* POST /cart/add up to the cart lookup (cart.py:21-33)
add_to_cart(c, user_id, product_id, quantity) ==
    /\ jobs[c] = NoJob
    /\ LET job == Job("add", user_id, product_id, quantity, 0)
       IN  IF user_id \notin DOMAIN users
           THEN jobs' = [jobs EXCEPT ![c] = Answer(job, 404)]
           ELSE IF product_id \notin ProductIds \/ catalog[product_id].is_active # TRUE
           THEN jobs' = [jobs EXCEPT ![c] = Answer(job, 404)]
           ELSE IF instock[product_id] < quantity
           THEN jobs' = [jobs EXCEPT ![c] = Answer(job, 404)]
           ELSE \E cart \in CartLookup(user_id) :
                  jobs' = [jobs EXCEPT ![c] =
                              [job EXCEPT !.cart = cart, !.pc = AfterCartLookup(cart)]]
    /\ UNCHANGED <<carts, cart_items, cart_item_seq, wishlist_items, shop>>

\* WishlistItem.id == wishlist_item_id, Wishlist.user_id == user_id,
\* Wishlist.is_active == True
OwnWishlistItems(user_id, wishlist_item_id) ==
    {w \in wishlist_items :
        w.id = wishlist_item_id /\ w.user_id = user_id /\ w.is_active = TRUE}

\* POST /wishlist/move-to-cart/{wishlist_item_id} up to the cart lookup
\* (wishlist.py:290-308)
move_to_cart(c, user_id, wishlist_item_id) ==
    /\ jobs[c] = NoJob
    /\ IF OwnWishlistItems(user_id, wishlist_item_id) = {}
       THEN jobs' = [jobs EXCEPT ![c] =
                        Answer(Job("move", user_id, 0, 0, wishlist_item_id), 404)]
       ELSE \E w \in OwnWishlistItems(user_id, wishlist_item_id) :
              LET job == Job("move", user_id, w.product_id, w.quantity, wishlist_item_id)
              IN  IF catalog[w.product_id].is_active # TRUE
                  THEN jobs' = [jobs EXCEPT ![c] = Answer(job, 404)]
                  ELSE IF instock[w.product_id] < w.quantity
                  THEN jobs' = [jobs EXCEPT ![c] = Answer(job, 400)]
                  ELSE \E cart \in CartLookup(user_id) :
                         jobs' = [jobs EXCEPT ![c] =
                                     [job EXCEPT !.cart = cart,
                                                 !.pc = AfterCartLookup(cart)]]
    /\ UNCHANGED <<carts, cart_items, cart_item_seq, wishlist_items, shop>>

\* cart = Cart(user_id=user_id, is_active=True); db.add(cart); db.commit()
CreateCart(c) ==
    /\ jobs[c].op # "none"
    /\ jobs[c].pc = "create"
    /\ Len(carts) < MaxCarts
    /\ carts' = Append(carts, [user_id |-> jobs[c].user_id, is_active |-> TRUE])
    /\ jobs' = [jobs EXCEPT ![c].cart = Len(carts) + 1, ![c].pc = "lookup"]
    /\ UNCHANGED <<cart_items, cart_item_seq, wishlist_items, shop>>

\* CartItem.cart_id == cart.id, CartItem.product_id == product_id
ItemsOfProduct(cart, product_id) ==
    {it \in cart_items : it.cart_id = cart /\ it.product_id = product_id}

\* db.query(CartItem).filter(...).first(): the handler loads the row
LookupItem(c) ==
    /\ jobs[c].op # "none"
    /\ jobs[c].pc = "lookup"
    /\ IF ItemsOfProduct(jobs[c].cart, jobs[c].product_id) = {}
       THEN jobs' = [jobs EXCEPT ![c].pc = "write"]
       ELSE \E it \in ItemsOfProduct(jobs[c].cart, jobs[c].product_id) :
              jobs' = [jobs EXCEPT ![c].cart_item = it.id,
                                   ![c].loaded = it.quantity,
                                   ![c].pc = "write"]
    /\ UNCHANGED <<carts, cart_items, cart_item_seq, wishlist_items, shop>>

\* the status of "The Quantity entered is high" / "Not enough stock available"
TooManyStatus(op) == IF op = "add" THEN 404 ELSE 400

\* db.delete(wishlist_item) of move_to_cart
WithoutMoved(job) ==
    IF job.op = "move"
    THEN {w \in wishlist_items : w.id # job.wishlist_item_id}
    ELSE wishlist_items

\* `if product.instock < cart_item.quantity + quantity`
ExceedsStock(job) == instock[job.product_id] < job.loaded + job.quantity

\* `if cart_item:` ... `else:` ... db.commit(): the loaded row is updated or a
\* new row is inserted.  The UPDATE of a row another request deleted and the
\* INSERT of a second row for (cart_id, product_id), which uq_cart_product
\* forbids, raise in commit and the transaction is rolled back.
WriteItem(c) ==
    /\ jobs[c].op # "none"
    /\ jobs[c].pc = "write"
    /\ LET job == jobs[c]
       IN  IF job.cart_item # 0
           THEN IF ExceedsStock(job)
                THEN /\ jobs' = [jobs EXCEPT ![c] = Answer(job, TooManyStatus(job.op))]
                     /\ UNCHANGED <<cart_items, cart_item_seq, wishlist_items>>
                ELSE IF \A it \in cart_items : it.id # job.cart_item
                THEN /\ jobs' = [jobs EXCEPT ![c] = Answer(job, 500)]
                     /\ UNCHANGED <<cart_items, cart_item_seq, wishlist_items>>
                ELSE /\ cart_items' =
                          {IF it.id = job.cart_item
                           THEN [it EXCEPT !.quantity = job.loaded + job.quantity]
                           ELSE it : it \in cart_items}
                     /\ wishlist_items' = WithoutMoved(job)
                     /\ jobs' = [jobs EXCEPT ![c] = Answer(job, 200)]
                     /\ UNCHANGED cart_item_seq
           ELSE IF ItemsOfProduct(job.cart, job.product_id) # {}
                THEN /\ jobs' = [jobs EXCEPT ![c] = Answer(job, 500)]
                     /\ UNCHANGED <<cart_items, cart_item_seq, wishlist_items>>
                ELSE /\ cart_item_seq < MaxCartItems
                     /\ cart_item_seq' = cart_item_seq + 1
                     /\ cart_items' = cart_items \cup
                          {[id |-> cart_item_seq + 1, cart_id |-> job.cart,
                            product_id |-> job.product_id, quantity |-> job.quantity]}
                     /\ wishlist_items' = WithoutMoved(job)
                     /\ jobs' = [jobs EXCEPT ![c] = Answer(job, 200)]
    /\ UNCHANGED <<carts, shop>>

\* the handler returns or raises: the request is over
LeaveCart(c) ==
    /\ jobs[c].op # "none"
    /\ jobs[c].pc = "done"
    /\ jobs' = [jobs EXCEPT ![c] = NoJob]
    /\ UNCHANGED <<carts, cart_items, cart_item_seq, wishlist_items, shop>>

---------------------------------------------------------------------------
(* Accounts: login (Endpoints/Auth/normal_login.py), token refresh          *)
(* (Endpoints/Auth/refreshToken.py), login logs                             *)
(* (Endpoints/Auth/SaveUserLogs.py), one-time passwords                     *)
(* (Endpoints/two_factor/otp.py) and password reset                         *)
(* (Endpoints/Auth/resetPassword.py).  Every handler is an `async def`      *)
(* without an await between its queries and is one step.  Time is in        *)
(* minutes.                                                                 *)

NoAuth == [op |-> "none"]

\* bcrypt_context.hash(password); the salt is left out
Hash(password) == <<"bcrypt", password>>

\* bcrypt_context.verify(password, password_hash)
Verify(password, password_hash) == password_hash = Hash(password)

\* the users table: a LOCAL account, a GOOGLE account without password, an
\* inactive and an unverified LOCAL account, and a second LOCAL account
UserRows == <<
    [email |-> "a@x.rw", provider |-> "LOCAL", password_hash |-> Hash("password1"),
     is_active |-> TRUE, is_verified |-> TRUE, role |-> "buyer"],
    [email |-> "b@x.rw", provider |-> "GOOGLE", password_hash |-> <<>>,
     is_active |-> TRUE, is_verified |-> TRUE, role |-> "buyer"],
    [email |-> "c@x.rw", provider |-> "LOCAL", password_hash |-> Hash("password1"),
     is_active |-> FALSE, is_verified |-> TRUE, role |-> "seller"],
    [email |-> "d@x.rw", provider |-> "LOCAL", password_hash |-> Hash("password1"),
     is_active |-> TRUE, is_verified |-> FALSE, role |-> "buyer"],
    [email |-> "e@x.rw", provider |-> "LOCAL", password_hash |-> Hash("password2"),
     is_active |-> TRUE, is_verified |-> TRUE, role |-> "admin"] >>

UserIds == DOMAIN UserRows

\* the addresses and passwords the requests name
Emails == {"a@x.rw", "b@x.rw", "c@x.rw", "d@x.rw", "e@x.rw", "nobody@x.rw"}

\* the addresses the one-time password and password reset requests name
FewEmails == {"a@x.rw", "b@x.rw", "nobody@x.rw"}

Passwords == {"password1", "password2", "short"}

\* the passwords the logins name
LoginPasswords == {"password1", "password2"}

\* db.query(Users).filter(Users.email == email).first(): the id, 0 (None) when
\* no row has the address (Users.email is unique)
UserByEmail(email) ==
    IF \E id \in DOMAIN users : users[id].email = email
    THEN CHOOSE id \in DOMAIN users : users[id].email = email
    ELSE 0

\* the clock moves on
Advance(d) ==
    /\ now' = now + d
    /\ UNCHANGED <<users, logs_activity, sent_otps, password_reset_tokens, auth>>

\* the handler returns the response
AuthReturn ==
    /\ auth # NoAuth
    /\ auth' = NoAuth
    /\ UNCHANGED <<users, now, logs_activity, sent_otps, password_reset_tokens>>

---------------------------------------------------------------------------
(* JSON web tokens *)

\* the secret of the environment that signs the tokens
SECRET_KEY == "secret"

\* ACCESS_TOKEN_EXPIRE_MINUTES of refreshToken.py and REFRESH_TOKEN_EXPIRE_DAYS,
\* in minutes
ACCESS_TOKEN_EXPIRE_MINUTES == 30

REFRESH_TOKEN_EXPIRE_DAYS == 7

MinutesPerDay == 1440

\* jwt.encode(payload, key): the token carries the claims and a signature
\* that only the key reproduces
Encode(payload, key) == [payload |-> payload, signature |-> <<payload, key>>]

\* jwt.decode(token, key) raises JWTError: the signature is not the key's or
\* the token has expired
DecodeRaises(token, key) ==
    \/ token.signature # <<token.payload, key>>
    \/ token.payload.exp < now

\* payload.get(name) is None
IsNone(payload, name) == name \notin DOMAIN payload

\* str(user.id), and a string that is an address
Str(id) == <<"str", id>>

Address(email) == <<"address", email>>

\* normal_login.create_access_token(email, user_id, role, expires_delta)
create_access_token(email, user_id, role, expires_delta) ==
    Encode([sub |-> Address(email), id |-> user_id, role |-> role,
            provider |-> "LOCAL", exp |-> now + expires_delta], SECRET_KEY)

\* normal_login.create_refresh_token(email, user_id, expires_delta)
create_refresh_token(email, user_id, expires_delta) ==
    Encode([sub |-> Address(email), id |-> user_id, exp |-> now + expires_delta],
           SECRET_KEY)

\* refreshToken.create_access_token(data={"sub": str(user.id)}, expires_delta)
CreateTokenOfRefresh(user_id, expires_delta) ==
    Encode([sub |-> Str(user_id), exp |-> now + expires_delta], SECRET_KEY)

---------------------------------------------------------------------------
(* Login logs: save_login_log and deactivate_login_logs *)

\* bounds: the rows of logs_activity, and the clock while logins are made
MaxLogs == 2

MaxLoginClock == 43201

\* os.getenv("MAX_DEVICES")
MAX_DEVICES == 1

\* timedelta(days=30), in minutes
LogWindow == 43200

\* the User-Agent headers of the requests, as lists of their parts; the last
\* is the value login_for_access_token takes when the header is missing
DeviceInfos == {
    <<"Mozilla/5.0", "Windows NT", "Chrome/1.0">>,
    <<"Mozilla/4.0", "Windows NT", "Chrome/1.0">>,
    <<"Unknown", "device">> }

\* what the patterns of extract_browser_info match
BrowserParts == {"Chrome/1.0"}

OsParts == {"Windows NT"}

\* re.search(pattern, user_agent): the leftmost match, else the default
FirstPart(user_agent, parts, default) ==
    IF \E i \in 1..Len(user_agent) : user_agent[i] \in parts
    THEN user_agent[CHOOSE i \in 1..Len(user_agent) :
                        /\ user_agent[i] \in parts
                        /\ \A j \in 1..(i - 1) : user_agent[j] \notin parts]
    ELSE default

\* extract_browser_info(user_agent): f"{browser_info} on {os_info}"
extract_browser_info(user_agent) ==
    <<FirstPart(user_agent, BrowserParts, "Unknown Browser"), "on",
      FirstPart(user_agent, OsParts, "Unknown OS")>>

\* generate_device_fingerprint(device_info, ip_address): the address is not used
generate_device_fingerprint(device_info) ==
    <<"device:", extract_browser_info(device_info)>>

\* LoginLogs.user_id == user_id, LoginLogs.device_active == True
ActiveLogsOf(user_id) ==
    {i \in 1..Len(logs_activity) :
        logs_activity[i].user_id = user_id /\ logs_activity[i].device_active = TRUE}

\* the log save_login_log takes for the device (SaveUserLogs.py:73-92): an
\* active log with the same device_info, else an active log with the same
\* fingerprint, else 0 (None); the queries have no ORDER BY
ExistingLogs(user_id, device_info) ==
    LET exact == {i \in ActiveLogsOf(user_id) :
                     logs_activity[i].device_info = device_info}
        similar == {i \in ActiveLogsOf(user_id) :
                       /\ logs_activity[i].device_info # <<>>
                       /\ generate_device_fingerprint(logs_activity[i].device_info)
                             = generate_device_fingerprint(device_info)}
    IN  IF exact # {} THEN exact
        ELSE IF similar # {} THEN similar
        ELSE {0}

\* the table after the login is recorded (SaveUserLogs.py:96-119)
Recorded(existing_log, user_id, device_info) ==
    IF existing_log # 0
    THEN [logs_activity EXCEPT ![existing_log].login_time = now]
    ELSE Append(logs_activity,
                [user_id |-> user_id, login_time |-> now,
                 device_info |-> device_info, device_active |-> TRUE])

\* device_combinations (SaveUserLogs.py:122-133) over the table `logs`
DeviceCombinations(logs, user_id) ==
    {generate_device_fingerprint(logs[i].device_info) :
        i \in {j \in 1..Len(logs) :
                  /\ logs[j].user_id = user_id
                  /\ logs[j].device_active = TRUE
                  /\ logs[j].login_time >= now - LogWindow
                  /\ logs[j].device_info # <<>>}}

\* what save_login_log returns once the login is recorded: whether the limit
\* is exceeded, unless send_new_email raises, which `except Exception` turns
\* into False (SaveUserLogs.py:143-189)
Reported(logs, user_id, mail_ok) ==
    LET device_limit_exceeded ==
            Cardinality(DeviceCombinations(logs, user_id)) > MAX_DEVICES
    IN  IF device_limit_exceeded /\ ~mail_ok THEN FALSE ELSE device_limit_exceeded

\* the answer of login_for_access_token
LoginAnswer(email, password, device_info, status, ran, reported, tokens) ==
    [op |-> "login", email |-> email, password |-> password,
     device_info |-> device_info, status |-> status,
     logged |-> ran, device_limit_exceeded |-> reported, tokens |-> tokens]

\* the account passes the tests of login_for_access_token after the password
\* test, were the verification of the address not tested
IsActiveOnly(user_id) == users[user_id].is_active = TRUE

\* `if not user.is_active` / `if not user.is_verified`
MayLogin(user_id) ==
    users[user_id].is_active = TRUE /\ users[user_id].is_verified = TRUE

\* login_for_access_token: authenticate_user, the account tests,
\* save_login_log and the tokens.  mail_ok: the mail server accepts the alert.
login_for_access_token(email, password, device_info, mail_ok) ==
    /\ auth = NoAuth
    /\ LET user == UserByEmail(email)
           Refuse(status) ==
               /\ auth' = LoginAnswer(email, password, device_info, status,
                                      FALSE, FALSE, <<>>)
               /\ UNCHANGED logs_activity
       IN  IF user = 0 THEN Refuse(401)
           ELSE IF users[user].provider # "LOCAL" THEN Refuse(400)
           ELSE IF ~Verify(password, users[user].password_hash) THEN Refuse(401)
           ELSE IF ~MayLogin(user)
           THEN Refuse(403)
           ELSE \E existing_log \in ExistingLogs(user, device_info) :
                  /\ existing_log = 0 => Len(logs_activity) < MaxLogs
                  /\ logs_activity' = Recorded(existing_log, user, device_info)
                  /\ LET reported == Reported(logs_activity', user, mail_ok)
                         token_expiry == REFRESH_TOKEN_EXPIRE_DAYS * MinutesPerDay
                     IN  auth' =
                           IF reported
                           THEN LoginAnswer(email, password, device_info, 406,
                                            TRUE, TRUE, <<>>)
                           ELSE LoginAnswer(email, password, device_info, 200,
                                    TRUE, FALSE,
                                    <<create_access_token(email, user,
                                          users[user].role, token_expiry),
                                      create_refresh_token(email, user,
                                          token_expiry)>>)
    /\ UNCHANGED <<users, now, sent_otps, password_reset_tokens>>

\* .order_by(LoginLogs.login_time.desc()).first(): a log of the user with the
\* latest login_time, 0 (None) when the user has none
RecentLogs(user_id) ==
    LET own == {i \in 1..Len(logs_activity) : logs_activity[i].user_id = user_id}
    IN  IF own = {} THEN {0}
        ELSE {i \in own : \A j \in own :
                 logs_activity[j].login_time <= logs_activity[i].login_time}

\* the logs deactivate_login_logs updates, were the user not in the filter
LogsOfAnyUser(i, user_id, recent_log) == i # recent_log

\* LoginLogs.user_id == user_id, LoginLogs.id != recent_log.id
LogsToDeactivate(i, user_id, recent_log) ==
    logs_activity[i].user_id = user_id /\ i # recent_log

\* deactivate_login_logs(db, user_id, keep_recent)
deactivate_login_logs(user_id, keep_recent) ==
    \E recent_log \in (IF keep_recent THEN RecentLogs(user_id) ELSE {0}) :
        logs_activity' =
            [i \in 1..Len(logs_activity) |->
                IF LogsToDeactivate(i, user_id, recent_log)
                THEN [logs_activity[i] EXCEPT !.device_active = FALSE]
                ELSE logs_activity[i]]

\* POST of clear_logs_endpoint with a token verify_clear_token accepts for
\* user_id: action "clear" keeps the most recent log, "reset" keeps none
clear_logs_endpoint(user_id, action) ==
    /\ auth = NoAuth
    /\ action \in {"clear", "reset"}
    /\ deactivate_login_logs(user_id, action = "clear")
    /\ auth' = [op |-> "clear_logs", user_id |-> user_id, action |-> action,
                keep_recent |-> (action = "clear"), status |-> 200]
    /\ UNCHANGED <<users, now, sent_otps, password_reset_tokens>>

---------------------------------------------------------------------------
(* Token refresh and the token check of the protected routes *)

\* db.query(Users).filter(Users.id == user_id).first() with the "sub" claim as
\* user_id: the text of a number finds the row with that id; an address is
\* no integer, which the database refuses (500) or matches with no row (401)
RefreshLookup(sub) ==
    IF sub[1] = "str" /\ sub[2] \in DOMAIN users THEN {<<sub[2], 200>>}
    ELSE IF sub[1] = "str" THEN {<<0, 401>>}
    ELSE {<<0, 401>>, <<0, 500>>}

\* POST /login/refresh/ with the refresh token of the response at hand
refresh_access_token ==
    /\ auth.op \in {"login", "refresh"}
    /\ auth.status = 200
    /\ LET refresh_token == auth.tokens[2]
           Refused(status) ==
               [op |-> "refresh", presented |-> refresh_token, from |-> auth.op,
                status |-> status, tokens |-> <<>>, user_id |-> 0]
       IN  IF DecodeRaises(refresh_token, SECRET_KEY) THEN auth' = Refused(401)
           ELSE IF IsNone(refresh_token.payload, "sub") THEN auth' = Refused(401)
           ELSE \E found \in RefreshLookup(refresh_token.payload.sub) :
                  auth' =
                    IF found[1] = 0 THEN Refused(found[2])
                    ELSE [op |-> "refresh", presented |-> refresh_token,
                          from |-> auth.op, status |-> 200,
                          tokens |-> <<CreateTokenOfRefresh(found[1],
                                           ACCESS_TOKEN_EXPIRE_MINUTES),
                                       CreateTokenOfRefresh(found[1],
                                           REFRESH_TOKEN_EXPIRE_DAYS * MinutesPerDay)>>,
                          user_id |-> found[1]]
    /\ UNCHANGED <<users, now, logs_activity, sent_otps, password_reset_tokens>>

\* get_current_user(token) with the access token of the response at hand
get_current_user ==
    /\ auth.op \in {"login", "refresh"}
    /\ auth.status = 200
    /\ LET token == auth.tokens[1]
           payload == token.payload
       IN  auth' =
             IF DecodeRaises(token, SECRET_KEY)
             THEN [op |-> "current_user", presented |-> token, from |-> auth.op,
                   status |-> 401, user_id |-> 0]
             ELSE IF \E name \in {"sub", "id", "role", "provider"} :
                        IsNone(payload, name)
             THEN [op |-> "current_user", presented |-> token, from |-> auth.op,
                   status |-> 401, user_id |-> 0]
             ELSE [op |-> "current_user", presented |-> token, from |-> auth.op,
                   status |-> 200, user_id |-> payload.id]
    /\ UNCHANGED <<users, now, logs_activity, sent_otps, password_reset_tokens>>

---------------------------------------------------------------------------
(* One-time passwords: send-otp and verify-otp *)

\* bound: the clock while one-time passwords are sent
MaxOtpClock == 11

\* `timedelta(minutes=10)`
OtpLifetime == 10

\* what generate_random_otp and generate_random_verification_code draw
OtpCodes == {<<"A", "1">>, <<"B", "2">>}

VerificationCodes == {<<"x", "Y">>, <<"z", "Z">>}

\* the codes a client submits
SubmittedOtpCodes == OtpCodes \cup {<<"a", "1">>}

Purposes == {"login", "email"}

UpperChar(c) ==
    CASE c = "a" -> "A"
      [] c = "b" -> "B"
      [] c = "x" -> "X"
      [] c = "z" -> "Z"
      [] OTHER -> c

\* str.upper()
Upper(s) == [i \in 1..Len(s) |-> UpperChar(s[i])]

\* the id of a new row of sent_otps
NewOtpId(rows) == CHOOSE n \in 1..(Cardinality(rows) + 1) : \A r \in rows : r.id # n

\* OTP.account_id == user.id
OtpsOf(user_id) == {r \in sent_otps : r.account_id = user_id}

\* POST /auth/send-otp/: the first stored OTP of the account is deleted, the
\* new one is stored, then the mail is sent
send_email(toEmail, purpose, otp, verification, mail_ok) ==
    /\ auth = NoAuth
    /\ LET user == UserByEmail(toEmail)
       IN  IF user = 0
           THEN /\ auth' = [op |-> "send_otp", email |-> toEmail, status |-> 404]
                /\ UNCHANGED sent_otps
           ELSE \E kept \in (IF OtpsOf(user) = {} THEN {sent_otps}
                             ELSE {sent_otps \ {r} : r \in OtpsOf(user)}) :
                  /\ sent_otps' = kept \cup
                        {[id |-> NewOtpId(kept), account_id |-> user,
                          otp_code |-> otp, verification_code |-> verification,
                          purpose |-> purpose, date |-> now]}
                  /\ auth' = [op |-> "send_otp", email |-> toEmail,
                              status |-> IF mail_ok THEN 200 ELSE 500]
    /\ UNCHANGED <<users, now, logs_activity, password_reset_tokens>>

\* OTP.otp_code == data.otp_code.upper(),
\* OTP.verification_code == data.verification_code, OTP.account_id == user_info.id
ValidOtps(user_id, otp_code, verification_code) ==
    {r \in sent_otps :
        /\ r.otp_code = Upper(otp_code)
        /\ r.verification_code = verification_code
        /\ r.account_id = user_id}

VerifyAnswer(email, otp_code, verification_code, status) ==
    [op |-> "verify_otp", email |-> email, otp_code |-> otp_code,
     verification_code |-> verification_code, status |-> status]

\* `datetime.utcnow() - valid_otp.date > timedelta(minutes=10)`
OtpExpired(valid_otp) == now - valid_otp.date > OtpLifetime

\* POST /auth/verify-otp
verify_opt(email, otp_code, verification_code) ==
    /\ auth = NoAuth
    /\ LET user_info == UserByEmail(email)
       IN  IF user_info = 0
           THEN /\ auth' = VerifyAnswer(email, otp_code, verification_code, 404)
                /\ UNCHANGED sent_otps
           ELSE IF ValidOtps(user_info, otp_code, verification_code) = {}
           THEN /\ auth' = VerifyAnswer(email, otp_code, verification_code, 404)
                /\ UNCHANGED sent_otps
           ELSE \E valid_otp \in ValidOtps(user_info, otp_code, verification_code) :
                  IF OtpExpired(valid_otp)
                  THEN /\ auth' = VerifyAnswer(email, otp_code, verification_code, 404)
                       /\ UNCHANGED sent_otps
                  ELSE IF valid_otp.purpose = "email"
                  THEN /\ auth' = VerifyAnswer(email, otp_code, verification_code, 200)
                       /\ UNCHANGED sent_otps
                  ELSE /\ sent_otps' = sent_otps \ {valid_otp}
                       /\ auth' = VerifyAnswer(email, otp_code, verification_code, 200)
    /\ UNCHANGED <<users, now, logs_activity, password_reset_tokens>>

---------------------------------------------------------------------------
(* Password reset *)

\* bounds: the rows of password_reset_tokens, and the clock while passwords
\* are reset
MaxResetTokens == 2

MaxResetClock == 60

\* `timedelta(hours=1)`, in minutes
ResetLifetime == 60

\* `len(new_password) < 8`
MinPasswordLength == 8

\* POST /auth/request-password-reset: the token is str(uuid4()), here the
\* number of its row
request_password_reset(email, mail_ok) ==
    /\ auth = NoAuth
    /\ LET user == UserByEmail(email)
       IN  IF user = 0 \/ users[user].provider # "LOCAL"
           THEN /\ auth' = [op |-> "request_reset", email |-> email, status |-> 200]
                /\ UNCHANGED password_reset_tokens
           ELSE /\ Len(password_reset_tokens) < MaxResetTokens
                /\ password_reset_tokens' =
                      Append(password_reset_tokens,
                             [user_id |-> user, expires_at |-> now + ResetLifetime,
                              is_used |-> FALSE])
                /\ auth' = [op |-> "request_reset", email |-> email,
                            status |-> IF mail_ok THEN 200 ELSE 500]
    /\ UNCHANGED <<users, now, logs_activity, sent_otps>>

\* the filter of process_password_reset, were used tokens not excluded
TokenNotExpired(token) ==
    /\ token \in 1..Len(password_reset_tokens)
    /\ password_reset_tokens[token].expires_at > now

\* PasswordResetToken.token == token, PasswordResetToken.expires_at >
\* datetime.utcnow(), PasswordResetToken.is_used == False
TokenValid(token) ==
    /\ token \in 1..Len(password_reset_tokens)
    /\ password_reset_tokens[token].expires_at > now
    /\ password_reset_tokens[token].is_used = FALSE

ResetAnswer(token, new_password, confirm_password, status, page) ==
    [op |-> "reset", token |-> token, new_password |-> new_password,
     confirm_password |-> confirm_password, status |-> status, page |-> page]

\* POST /auth/reset-password
process_password_reset(token, new_password, confirm_password, mail_ok) ==
    /\ auth = NoAuth
    /\ IF ~TokenValid(token)
       THEN /\ auth' = ResetAnswer(token, new_password, confirm_password, 400,
                                   "request")
            /\ UNCHANGED <<users, password_reset_tokens>>
       ELSE IF new_password # confirm_password
       THEN /\ auth' = ResetAnswer(token, new_password, confirm_password, 200,
                                   "form")
            /\ UNCHANGED <<users, password_reset_tokens>>
       ELSE IF Len(new_password) < MinPasswordLength
       THEN /\ auth' = ResetAnswer(token, new_password, confirm_password, 200,
                                   "form")
            /\ UNCHANGED <<users, password_reset_tokens>>
       ELSE /\ users' = [users EXCEPT
                           ![password_reset_tokens[token].user_id].password_hash =
                               Hash(new_password)]
            /\ password_reset_tokens' =
                  [password_reset_tokens EXCEPT ![token].is_used = TRUE]
            /\ auth' = ResetAnswer(token, new_password, confirm_password,
                                   IF mail_ok THEN 200 ELSE 500, "success")
    /\ UNCHANGED <<now, logs_activity, sent_otps>>

---------------------------------------------------------------------------
(* Specifications *)

Init ==
    /\ catalog \in Catalogs
    /\ resp = NoResp
    /\ prev = NoResp
    /\ pc = "idle"
    /\ query_terms = <<>>
    /\ limit = 0
    /\ results = <<>>
    /\ seen_product_ids = {}
    /\ queried = <<>>
    /\ fetched = <<>>
    /\ discovered = <<>>
    /\ related = NoRelated
    /\ db_fault = 0
    /\ reqs = [c \in Clients |-> NoReq]
    /\ text = NoText
    /\ carts = <<>>
    /\ cart_items = {}
    /\ cart_item_seq = 0
    /\ wishlist_items = WishlistRows
    /\ shop = NoShop
    /\ jobs = [c \in Clients |-> NoJob]
    /\ users = UserRows
    /\ now = 0
    /\ logs_activity = <<>>
    /\ sent_otps = {}
    /\ password_reset_tokens = <<>>
    /\ auth = NoAuth

\* the search requests, with validated pagination (skip >= 0, limit >= 1)
SearchRequest(query, lim, skip) ==
    \/ search_products_endpoint(query, lim, skip)
    \/ search_by_title_endpoint(query, lim, skip)
    \/ exact_search_endpoint(query, lim, skip)
    \/ search_products(query, lim, skip)

\* the handler returns the response and keeps nothing of the request
Return ==
    /\ resp # NoResp
    /\ resp' = NoResp
    /\ UNCHANGED prev

Start == \E terms \in TermLists, lim \in 0..MaxMatchLimit : StartMatching(terms, lim)

Next ==
    \/ /\ \E query \in Queries, lim \in 1..MaxLimit, skip \in 0..MaxSkip :
              SearchRequest(query, lim, skip)
       /\ UNCHANGED <<catalog, prev, matchVars, utilVars, shopVars, accountVars>>
    \/ Return /\ UNCHANGED <<catalog, matchVars, utilVars, shopVars, accountVars>>

Spec == Init /\ [][Next]_vars

\* A client that pages through the results of one search: every request of a
\* behaviour has the same endpoint, query and limit; the client keeps the page
\* it received last.
PageQueries == {<<"c", "a", "p">>, <<"R", "e", "d", " ", "c", "a", "p">>}

SameSearch(r, s) ==
    r.endpoint = s.endpoint /\ r.query = s.query /\ r.limit = s.limit

\* the client receives the response
Receive ==
    /\ resp # NoResp
    /\ prev' = resp
    /\ resp' = NoResp

PagesNext ==
    \/ /\ \E query \in PageQueries, lim \in 1..MaxLimit, skip \in 0..MaxSkip :
              SearchRequest(query, lim, skip)
       /\ prev # NoResp => SameSearch(prev, resp')
       /\ UNCHANGED <<catalog, prev, matchVars, utilVars, shopVars, accountVars>>
    \/ Receive /\ UNCHANGED <<catalog, matchVars, utilVars, shopVars, accountVars>>

PagesSpec == Init /\ [][PagesNext]_vars

MatchNext ==
    \/ Start /\ UNCHANGED <<catalog, endpointVars, utilVars, shopVars, accountVars>>
    \/ Phase1 /\ UNCHANGED <<catalog, endpointVars, utilVars, shopVars, accountVars>>
    \/ Phase2 /\ UNCHANGED <<catalog, endpointVars, utilVars, shopVars, accountVars>>
    \/ Phase3 /\ UNCHANGED <<catalog, endpointVars, utilVars, shopVars, accountVars>>
    \/ OtherField /\ UNCHANGED <<catalog, endpointVars, utilVars, shopVars, accountVars>>
    \/ Rank /\ UNCHANGED <<catalog, endpointVars, utilVars, shopVars, accountVars>>

MatchSpec == Init /\ [][MatchNext]_vars

RelatedNext ==
    \/ /\ \E top_id \in ProductIds \cup {0}, lim \in RelatedLimits :
              RelatedLookup(top_id, lim)
       /\ UNCHANGED <<catalog, endpointVars, matchVars, db_fault, reqs, text, shopVars, accountVars>>
    \/ RelatedReturn /\ UNCHANGED <<catalog, endpointVars, matchVars, db_fault, reqs, text, shopVars, accountVars>>

\* The whole search subsystem, one operation at a time: a request to an
\* endpoint, a run of the matching pipeline or a related-product lookup.
SearchNext ==
    \/ pc = "idle" /\ related = NoRelated /\ Next
    \/ resp = NoResp /\ related = NoRelated /\ MatchNext
    \/ resp = NoResp /\ pc = "idle" /\ RelatedNext
    \/ Finish /\ UNCHANGED <<catalog, endpointVars, utilVars, shopVars, accountVars>>

SearchSpec == Init /\ [][SearchNext]_vars

\* the catalog starts to fail (at the n-th query of every request) or recovers
Fail(n) ==
    /\ resp = NoResp
    /\ db_fault # n
    /\ db_fault' = n
    /\ UNCHANGED <<related, reqs, text>>

\* Requests to the endpoints while the catalog can fail.
FaultNext ==
    \/ /\ \E query \in Queries, lim \in 1..MaxLimit, skip \in 0..MaxSkip :
              SearchRequest(query, lim, skip)
       /\ UNCHANGED <<catalog, prev, matchVars, utilVars, shopVars, accountVars>>
    \/ Return /\ UNCHANGED <<catalog, matchVars, utilVars, shopVars, accountVars>>
    \/ /\ \E n \in 0..MaxFault : Fail(n)
       /\ UNCHANGED <<catalog, endpointVars, matchVars, shopVars, accountVars>>

FaultSpec == Init /\ [][FaultNext]_vars

\* Requests of several clients, handled by worker threads that interleave at
\* their catalog queries.
ConcNext ==
    \/ /\ \E c \in Clients, req \in ConcRequests :
              Arrive(c, req[1], req[2], req[3], req[4])
       /\ UNCHANGED <<catalog, endpointVars, matchVars, related, db_fault, text, shopVars, accountVars>>
    \/ (\E c \in Clients : PageQuery(c))
          /\ UNCHANGED <<catalog, endpointVars, matchVars, related, db_fault, text, shopVars, accountVars>>
    \/ (\E c \in Clients : CountQuery(c))
          /\ UNCHANGED <<catalog, endpointVars, matchVars, related, db_fault, text, shopVars, accountVars>>
    \/ (\E c \in Clients : ExactFirst(c))
          /\ UNCHANGED <<catalog, endpointVars, matchVars, related, db_fault, text, shopVars, accountVars>>
    \/ (\E c \in Clients : ExactSecond(c))
          /\ UNCHANGED <<catalog, endpointVars, matchVars, related, db_fault, text, shopVars, accountVars>>
    \/ (\E c \in Clients : ExactThird(c))
          /\ UNCHANGED <<catalog, endpointVars, matchVars, related, db_fault, text, shopVars, accountVars>>
    \/ (\E c \in Clients : Leave(c))
          /\ UNCHANGED <<catalog, endpointVars, matchVars, related, db_fault, text, shopVars, accountVars>>

ConcSpec == Init /\ [][ConcNext]_vars

\* Calls of the text helpers.
TextNext ==
    \/ /\ \E query \in TextQueries, candidates \in TypoCandidates :
              CorrectTypo(query, candidates)
       /\ UNCHANGED <<catalog, endpointVars, matchVars, related, db_fault, reqs, shopVars, accountVars>>
    \/ /\ \E query \in TextQueries : ExtractTerms(query)
       /\ UNCHANGED <<catalog, endpointVars, matchVars, related, db_fault, reqs, shopVars, accountVars>>
    \/ TextReturn
          /\ UNCHANGED <<catalog, endpointVars, matchVars, related, db_fault, reqs, shopVars, accountVars>>

TextSpec == Init /\ [][TextNext]_vars

\* The cart reads Product.is_active and Product.instock and the accounts read
\* no product: the cart and account specifications start from the one catalog
\* whose products are all active and created in the order of their ids.
DistinctCreated == \A id \in ProductIds : catalog[id].created_at = id

AllProductsActive == \A id \in ProductIds : catalog[id].is_active = TRUE

OneCatalogInit == Init /\ DistinctCreated /\ AllProductsActive

\* no cart request is being handled
Quiet == shop = NoShop /\ \A c \in Clients : jobs[c] = NoJob

\* Requests to the cart, one at a time.
CartNext ==
    \/ /\ Quiet
       /\ \E user_id \in CartUsers, product_id \in CartProducts, quantity \in 1..MaxQuantity :
              add_to_cart("c1", user_id, product_id, quantity)
       /\ UNCHANGED <<searchVars, accountVars>>
    \/ /\ Quiet
       /\ \E user_id \in CartUsers, id \in WishlistItemIds : move_to_cart("c1", user_id, id)
       /\ UNCHANGED <<searchVars, accountVars>>
    \/ CreateCart("c1") /\ UNCHANGED <<searchVars, accountVars>>
    \/ LookupItem("c1") /\ UNCHANGED <<searchVars, accountVars>>
    \/ WriteItem("c1") /\ UNCHANGED <<searchVars, accountVars>>
    \/ LeaveCart("c1") /\ UNCHANGED <<searchVars, accountVars>>
    \/ /\ Quiet
       /\ \E user_id \in CartUsers, id \in 1..MaxCartItems, quantity \in 1..MaxQuantity :
              update_cart_item(user_id, id, quantity)
       /\ UNCHANGED <<searchVars, accountVars>>
    \/ /\ Quiet
       /\ \E user_id \in CartUsers, id \in 1..MaxCartItems : delete_cart_item(user_id, id)
       /\ UNCHANGED <<searchVars, accountVars>>
    \/ /\ Quiet
       /\ \E user_id \in CartUsers, id \in 1..MaxCarts, is_active \in BOOLEAN :
              toggle_cart_status(user_id, id, is_active)
       /\ UNCHANGED <<searchVars, accountVars>>
    \/ ShopReturn /\ UNCHANGED <<searchVars, accountVars>>

CartSpec == OneCatalogInit /\ [][CartNext]_vars

\* Requests of one user for one product, handled by workers that interleave at
\* the queries and commits of add_to_cart and move_to_cart, while an
\* administrator toggles carts.
OneUser == {1}

OneProduct == {1}

CartConcNext ==
    \/ /\ \E c \in Clients, user_id \in OneUser, product_id \in OneProduct,
              quantity \in 1..MaxQuantity :
              add_to_cart(c, user_id, product_id, quantity)
       /\ UNCHANGED <<searchVars, accountVars>>
    \/ /\ \E c \in Clients, user_id \in OneUser, id \in WishlistItemIds :
              move_to_cart(c, user_id, id)
       /\ UNCHANGED <<searchVars, accountVars>>
    \/ (\E c \in Clients : CreateCart(c)) /\ UNCHANGED <<searchVars, accountVars>>
    \/ (\E c \in Clients : LookupItem(c)) /\ UNCHANGED <<searchVars, accountVars>>
    \/ (\E c \in Clients : WriteItem(c)) /\ UNCHANGED <<searchVars, accountVars>>
    \/ (\E c \in Clients : LeaveCart(c)) /\ UNCHANGED <<searchVars, accountVars>>
    \/ /\ \E user_id \in OneUser, id \in 1..MaxCarts, is_active \in BOOLEAN :
              toggle_cart_status(user_id, id, is_active)
       /\ UNCHANGED <<searchVars, accountVars>>
    \/ ShopReturn /\ UNCHANGED <<searchVars, accountVars>>

CartConcSpec == OneCatalogInit /\ [][CartConcNext]_vars

\* Logins, the use of the tokens they return, and the clearing of login logs.
LoginNext ==
    \/ /\ \E email \in Emails, password \in LoginPasswords, device_info \in DeviceInfos,
              mail_ok \in BOOLEAN :
              login_for_access_token(email, password, device_info, mail_ok)
       /\ UNCHANGED <<searchVars, shopVars>>
    \/ refresh_access_token /\ UNCHANGED <<searchVars, shopVars>>
    \/ get_current_user /\ UNCHANGED <<searchVars, shopVars>>
    \/ /\ \E user_id \in UserIds, action \in {"clear", "reset"} :
              clear_logs_endpoint(user_id, action)
       /\ UNCHANGED <<searchVars, shopVars>>
    \/ /\ \E d \in {LogWindow, LogWindow + 1} : now + d <= MaxLoginClock /\ Advance(d)
       /\ UNCHANGED <<searchVars, shopVars>>
    \/ AuthReturn /\ UNCHANGED <<searchVars, shopVars>>

LoginSpec == OneCatalogInit /\ [][LoginNext]_vars

\* One-time passwords are sent and verified while time passes.
OtpNext ==
    \/ /\ \E toEmail \in FewEmails, purpose \in Purposes, otp \in OtpCodes,
              verification \in VerificationCodes, mail_ok \in BOOLEAN :
              send_email(toEmail, purpose, otp, verification, mail_ok)
       /\ UNCHANGED <<searchVars, shopVars>>
    \/ /\ \E email \in FewEmails, otp_code \in SubmittedOtpCodes,
              verification_code \in VerificationCodes :
              verify_opt(email, otp_code, verification_code)
       /\ UNCHANGED <<searchVars, shopVars>>
    \/ /\ \E d \in {OtpLifetime, OtpLifetime + 1} : now + d <= MaxOtpClock /\ Advance(d)
       /\ UNCHANGED <<searchVars, shopVars>>
    \/ AuthReturn /\ UNCHANGED <<searchVars, shopVars>>

OtpSpec == OneCatalogInit /\ [][OtpNext]_vars

\* Password resets are requested and submitted while time passes.
ResetNext ==
    \/ /\ \E email \in FewEmails, mail_ok \in BOOLEAN :
              request_password_reset(email, mail_ok)
       /\ UNCHANGED <<searchVars, shopVars>>
    \/ /\ \E token \in 1..(MaxResetTokens + 1), new_password \in Passwords,
              confirm_password \in Passwords, mail_ok \in BOOLEAN :
              process_password_reset(token, new_password, confirm_password, mail_ok)
       /\ UNCHANGED <<searchVars, shopVars>>
    \/ /\ \E d \in {ResetLifetime - 1, ResetLifetime} : now + d <= MaxResetClock /\ Advance(d)
       /\ UNCHANGED <<searchVars, shopVars>>
    \/ AuthReturn /\ UNCHANGED <<searchVars, shopVars>>

ResetSpec == OneCatalogInit /\ [][ResetNext]_vars

---------------------------------------------------------------------------
(* Claims about matching and ranking, checked under MatchSpec *)

\* the position of the candidate with this id in a list of candidates
PositionOf(res, id) == CHOOSE i \in 1..Len(res) : res[i].id = id

\* the match types a list of candidates gives this id
MatchTypesOf(res, id) ==
    {res[i].match_type : i \in {j \in 1..Len(res) : res[j].id = id}}

\* the last phase that queried the catalog
LastQueried == IF queried = <<>> THEN "none" ELSE queried[Len(queried)]

\* C1: no catalog item identifier appears twice in the candidate list built
\* across the matching phases (the title phases of get_title_match_products,
\* then get_other_field_products), nor in the ranked list returned from it,
\* whatever rows the phases fetch.
C1_NoDuplicateCandidates ==
    /\ \A i, j \in 1..Len(results) : results[i].id = results[j].id => i = j
    /\ \A i, j \in 1..Len(discovered) : discovered[i].id = discovered[j].id => i = j

\* C1 witness: the all-terms phase has fetched a row that the exact-phrase
\* phase had already added.
C1_Witness ==
    /\ pc = "phase3"
    /\ LastQueried = "title_all_words"
    /\ \E i \in 1..Len(results) :
          /\ results[i].match_type = "title_exact_phrase"
          /\ results[i].id \in Range(fetched)

\* the steps of one run of the matching pipeline
InRun == pc \notin {"idle", "done"}

\* the place of a phase in the order of the phases
PhaseRank(phase) ==
    CASE phase = "title_exact_phrase" -> 1
      [] phase = "title_all_words" -> 2
      [] phase = "title_some_words" -> 3
      [] phase = "other_field" -> 4

\* The gating of the title phases with the target given as a parameter: the
\* exact-phrase phase always queries, first; the all-terms and the some-terms
\* phase query exactly when fewer than target(limit) candidates are accumulated
\* and some term is longer than one character; the phases that query do so in
\* the order exact phrase, all terms, some terms, other fields.
PhasesGatedBy(target(_)) ==
    /\ pc = "phase1" => queried' = <<"title_exact_phrase">>
    /\ pc = "phase2" =>
          queried' = IF Len(results) < target(limit) /\ HasConditions(query_terms)
                     THEN Append(queried, "title_all_words") ELSE queried
    /\ pc = "phase3" =>
          queried' = IF Len(results) < target(limit) /\ HasConditions(query_terms)
                     THEN Append(queried, "title_some_words") ELSE queried
    /\ (pc \in {"phase2", "phase3"} /\ Len(results) >= target(limit)) =>
          (queried' = queried /\ results' = results)
    /\ InRun => \A i, j \in 1..Len(queried') :
                    i < j => PhaseRank(queried'[i]) < PhaseRank(queried'[j])

TargetLimit(lim) == lim

TargetTwiceLimit(lim) == 2 * lim

C6_FirstPhaseWins ==
    [][InRun => \A i \in 1..Len(results) :
                    MatchTypesOf(results', results[i].id) = {results[i].match_type}]_vars

\* C6 witness: the some-terms phase has fetched a row that an earlier phase
\* had added, and the row still carries the earlier phase's match_type.
C6_Witness ==
    /\ pc = "other_field"
    /\ LastQueried = "title_some_words"
    /\ \E i \in 1..Len(results) :
          /\ results[i].match_type \in {"title_exact_phrase", "title_all_words"}
          /\ results[i].id \in Range(fetched)

\* C7: the ranked list is a permutation of the candidates, sorted by score
\* descending, and candidates of equal score keep their discovery order.
C7_StableDescending ==
    pc = "done" =>
        /\ Len(results) = Len(discovered)
        /\ \A i \in 1..Len(discovered) : \E j \in 1..Len(results) :
              /\ results[j].id = discovered[i].id
              /\ results[j].match_type = discovered[i].match_type
              /\ results[j].matched_words = discovered[i].matched_words
        /\ \A i, j \in 1..Len(results) :
              i < j => /\ results[i].score >= results[j].score
                       /\ results[i].score = results[j].score =>
                              PositionOf(discovered, results[i].id)
                                  < PositionOf(discovered, results[j].id)

\* C7 witness: a ranked list with two candidates of equal score and with two
\* candidates that the sort has put in the opposite of their discovery order.
C7_Witness ==
    /\ pc = "done"
    /\ \E i, j \in 1..Len(results) : i < j /\ results[i].score = results[j].score
    /\ \E i, j \in 1..Len(results) :
          /\ i < j
          /\ PositionOf(discovered, results[i].id) > PositionOf(discovered, results[j].id)


\* the title-match bonus as the claim words it, for a title in lower case: the
\* share of the terms found in the title (in percent, rounded down), +50 for
\* the verbatim phrase, +30 per adjacent term pair adjacent in the title, +40
\* if the title starts with the first term; nothing for an empty title or an
\* empty term list
ClaimedTitleBonus(title, terms, matched) ==
    IF title = <<>> \/ terms = <<>> THEN 0
    ELSE LET t == Lower(title)
             lowered == [i \in 1..Len(terms) |-> Lower(terms[i])]
         IN  (100 * Len(matched)) \div Len(terms)
             + (IF Contains(t, Join(lowered)) THEN 50 ELSE 0)
             + 30 * Cardinality({i \in 1..(Len(lowered) - 1) :
                       Contains(t, lowered[i] \o <<" ">> \o lowered[i + 1])})
             + (IF StartsWith(t, lowered[1]) THEN 40 ELSE 0)

\* the base score of a match type
ClaimedBase(match_type) ==
    CASE match_type = "title_exact_phrase" -> 200
      [] match_type = "title_all_words" -> 150
      [] match_type = "title_some_words" -> 100
      [] match_type = "title_single_word" -> 50
      [] match_type = "other_field" -> 40
      [] OTHER -> 0

\* C8 (as claimed): the final score is the base score of the match type, plus
\* the title-match bonus, plus 10 per distinct matched term, plus rating x 5,
\* with no other component.
C8_Original ==
    pc = "done" =>
        \A i \in 1..Len(results) :
            LET r == results[i]
                p == catalog[r.id]
            IN  r.score = ClaimedBase(r.match_type)
                          + ClaimedTitleBonus(p.title, query_terms, r.matched_words)
                          + 10 * Cardinality(Range(r.matched_words))
                          + p.rating * 5

\* C8 (amended): the final score is the base score of the match type (200
\* exact phrase, 150 all terms, 100 some terms, 40 other fields), plus the
\* title-match bonus computed from the candidate's matched words, plus 10 per
\* matched word (a term that occurs twice in the query counts twice), plus
\* rating x 5, plus 5 when the price is above 0.
C8_ScoreIsSum ==
    pc = "done" =>
        \A i \in 1..Len(results) :
            LET r == results[i]
                p == catalog[r.id]
            IN  r.score = ClaimedBase(r.match_type)
                          + ClaimedTitleBonus(p.title, query_terms, r.matched_words)
                          + 10 * Len(r.matched_words)
                          + p.rating * 5
                          + (IF p.price > 0 THEN 5 ELSE 0)

\* C8 witness: a ranked exact-phrase candidate with a rating and a price whose
\* title starts with the first of two terms and holds them as a phrase, so
\* that every component of the sum is above 0.
C8_Witness ==
    /\ pc = "done"
    /\ Len(query_terms) = 2
    /\ \E i \in 1..Len(results) :
          LET p == catalog[results[i].id]
          IN  /\ results[i].match_type = "title_exact_phrase"
              /\ StartsWith(Lower(p.title), Lower(query_terms[1]))
              /\ p.rating > 0
              /\ p.price > 0
              /\ results[i].score = 200 + (100 + 50 + 30 + 40) + 20 + p.rating * 5 + 5

\* the matched-term lists a caller can hand to calculate_title_match_score
MatchedChoices(title, terms) ==
    {<<>>, terms, find_matching_words_in_title(title, terms)}

\* C9: with ratings in 0..5 and prices >= 0, the final score of every ranked
\* candidate is at least the base score of its match type, and the title-match
\* bonus of the ranked term list is >= 0 for every title of the catalog and
\* every list of matched terms.
C9_NonNegativeComponents ==
    ((\A id \in ProductIds : catalog[id].rating \in 0..5 /\ catalog[id].price >= 0)
     /\ pc = "done") =>
        /\ \A i \in 1..Len(results) :
              results[i].score >= ClaimedBase(results[i].match_type)
        /\ \A id \in ProductIds :
              \A matched \in MatchedChoices(catalog[id].title, query_terms) :
                  calculate_title_match_score(catalog[id].title, query_terms, matched) >= 0

\* C9 witness: a ranked list that holds a candidate without rating and price
\* (no popularity component) and a candidate with both.
C9_Witness ==
    /\ pc = "done"
    /\ \E i, j \in 1..Len(results) :
          /\ catalog[results[i].id].rating = 0
          /\ catalog[results[i].id].price = 0
          /\ catalog[results[j].id].rating > 0
          /\ catalog[results[j].id].price > 0
          /\ results[i].score > ClaimedBase(results[i].match_type)

---------------------------------------------------------------------------
(* Claims about the search endpoints *)

\* a query string that is empty or holds whitespace only
Blank(query) == \A i \in 1..Len(query) : query[i] = " "

SearchEndpoints == {"search", "title", "exact"}

\* the rows that match the request a response answers, before pagination
MatchesBeforePagination(r) ==
    IF r.endpoint \in SearchEndpoints /\ Blank(r.query) THEN {}
    ELSE CASE r.endpoint = "search" -> SearchMatches(r.query)
           [] r.endpoint = "title" -> TitleMatches(r.query)
           [] r.endpoint = "exact" -> ExactMatches(r.query)
           [] r.endpoint = "service" -> ServiceMatches(r.query)

\* C2: in every search response total_results is the number of matches before
\* pagination, and showing_results (where the response carries it) is
\* min(limit, total_results - skip) when skip < total_results and 0 otherwise.
C2_TotalAndShowing ==
    resp # NoResp =>
        LET total == Cardinality(MatchesBeforePagination(resp))
        IN  /\ resp.total_results = total
            /\ "showing_results" \in resp.keys =>
                  resp.showing_results =
                      IF resp.skip < total THEN Min(resp.limit, total - resp.skip) ELSE 0

\* C3: the products of a response are the rank positions skip+1 .. skip+limit
\* of the matches ordered by created_at descending; two pages of one search
\* whose position ranges do not overlap share no product; and the pages for
\* skip = 0 and skip = limit together hold every match when there are at most
\* 2 x limit matches.
C3_PagesPartition ==
    /\ (resp # NoResp /\ resp.endpoint \in SearchEndpoints) =>
          \E ordered \in OrderByCreatedDesc(MatchesBeforePagination(resp)) :
              resp.products = Slice(ordered, resp.skip, resp.skip + resp.limit)
    /\ (prev # NoResp /\ resp # NoResp /\ SameSearch(prev, resp)
        /\ resp.endpoint \in SearchEndpoints) =>
          /\ (prev.skip + prev.limit <= resp.skip \/ resp.skip + resp.limit <= prev.skip) =>
                Range(prev.products) \cap Range(resp.products) = {}
          /\ (prev.skip = 0 /\ resp.skip = resp.limit
              /\ Cardinality(MatchesBeforePagination(resp)) <= 2 * resp.limit) =>
                Range(prev.products) \cup Range(resp.products)
                    = MatchesBeforePagination(resp)

\* C4 (as claimed): an empty or whitespace-only query gives total_results = 0,
\* products = [] and search_type = "empty_query" without a catalog query, on
\* every search endpoint.
C4_Original ==
    (resp # NoResp /\ resp.endpoint \in SearchEndpoints /\ Blank(resp.query)) =>
        /\ resp.total_results = 0
        /\ resp.products = <<>>
        /\ "search_type" \in resp.keys
        /\ resp.search_type = "empty_query"
        /\ resp.db_queries = 0

\* C4 (amended): an empty or whitespace-only query is not an error: every
\* search endpoint returns total_results = 0 and products = [] without a
\* catalog query and without an error key; GET /search also returns
\* search_type = "empty_query", while the responses of GET /search/title and
\* GET /search/exact carry no search_type.
C4_EmptyQuery ==
    (resp # NoResp /\ resp.endpoint \in SearchEndpoints /\ Blank(resp.query)) =>
        /\ resp.total_results = 0
        /\ resp.products = <<>>
        /\ resp.db_queries = 0
        /\ "error" \notin resp.keys
        /\ {"products", "total_results"} \subseteq resp.keys
        /\ IF resp.endpoint = "search"
           THEN "search_type" \in resp.keys /\ resp.search_type = "empty_query"
           ELSE "search_type" \notin resp.keys

\* C4 witness: GET /search/exact has answered a whitespace-only query.
C4_Witness ==
    /\ resp.endpoint = "exact"
    /\ resp.query = <<" ">>
    /\ resp.products = <<>>

\* C10: two requests to a search endpoint with the same query, limit and skip
\* on the same catalog get the same response: the same products in the same
\* order, the same counts.
C10_Deterministic ==
    (prev # NoResp /\ resp # NoResp /\ resp.endpoint \in SearchEndpoints
     /\ SameSearch(prev, resp) /\ prev.skip = resp.skip) =>
        resp = prev

---------------------------------------------------------------------------
(* Claims about the whole search subsystem, checked under SearchSpec *)

\* the rows of a list of product ids are all active
AllActive(ids) == \A i \in 1..Len(ids) : catalog[ids[i]].is_active = TRUE

\* C11: only active catalog items are searchable: the products of every
\* endpoint response, the rows every matching phase fetches, the candidates
\* of the pipeline and the products of every related-product lookup are
\* active.
C11_OnlyActive ==
    /\ AllActive(resp.products)
    /\ AllActive(fetched)
    /\ AllActive([i \in 1..Len(results) |-> results[i].id])
    /\ AllActive(related.products)

\* C11 witness: on a catalog where product 2 ("Red cap") is inactive, GET
\* /search has answered "cap" with a non-empty page.
C11_Witness ==
    /\ catalog[2].is_active = FALSE
    /\ resp.endpoint = "search"
    /\ resp.query = <<"c", "a", "p">>
    /\ Len(resp.products) = 2

\* C20 (as claimed): a related-product lookup returns at most 3 items, all
\* active, none of them the source item.
C20_Original ==
    related.called =>
        /\ Len(related.products) <= 3
        /\ AllActive(related.products)
        /\ \A i \in 1..Len(related.products) : related.products[i] # related.top

\* C20 (amended): a related-product lookup returns at most `limit` items (10
\* unless the caller passes another limit), no item twice, all active, none
\* of them the source item.
C20_RelatedBounded ==
    related.called =>
        /\ Len(related.products) <= related.limit
        /\ Cardinality(Range(related.products)) = Len(related.products)
        /\ AllActive(related.products)
        /\ \A i \in 1..Len(related.products) : related.products[i] # related.top

\* C20 witness: the lookup for product 1 with the default limit has returned
\* the four other products.
C20_Witness ==
    /\ related.called
    /\ related.top = 1
    /\ related.limit = RelatedDefaultLimit
    /\ Len(related.products) = 4

---------------------------------------------------------------------------
(* Claims about catalog failures, checked under FaultSpec *)

\* the number of catalog queries the handler of a response runs when none fails
QueriesRun(r) == IF r.endpoint = "exact" THEN ExactQueries(r.query) ELSE 2

\* a catalog query raised while the request of response r was handled
FailedDuring(r) ==
    /\ r # NoResp
    /\ r.endpoint \in SearchEndpoints
    /\ ~Blank(r.query)
    /\ db_fault \in 1..QueriesRun(r)

\* C12: when a catalog query fails during a search, the failure is caught and
\* the search is retried with one substring query on the title, whose rows
\* are returned instead of an error.
C12_FallbackOnFailure ==
    FailedDuring(resp) =>
        /\ "error" \notin resp.keys
        /\ resp.db_queries = db_fault + 1
        /\ Range(resp.products) \subseteq ExactTitleMatches(Lower(Strip(resp.query)))

\* C13: a catalog failure never leaves a search endpoint as an exception:
\* whenever a catalog query raises, the endpoint returns a dictionary with an
\* error message, products = [] and total_results = 0.
C13_FailureIsReported ==
    FailedDuring(resp) =>
        /\ resp.keys # KeysRaised
        /\ {"query", "error", "products", "total_results"} \subseteq resp.keys
        /\ resp.products = <<>>
        /\ resp.total_results = 0

\* C13 witness: GET /search/exact has answered by an error dictionary after
\* its second catalog query raised.
C13_Witness ==
    /\ resp.endpoint = "exact"
    /\ db_fault = 2
    /\ resp.db_queries = 2
    /\ "error" \in resp.keys

---------------------------------------------------------------------------
(* Claims about concurrent requests, checked under ConcSpec *)

\* the responses a request can get when it is handled alone on the catalog
AloneResponses(endpoint, query, lim, skip) ==
    IF IsEmptyQuery(query)
    THEN {Response(endpoint, query, lim, skip,
                   IF endpoint = "search" THEN KeysEmptySearch ELSE KeysEmptyTitleOrExact,
                   IF endpoint = "search" THEN "empty_query" ELSE "", <<>>, 0, 0, 0)}
    ELSE CASE endpoint = "search" ->
                {Response("search", query, lim, skip, KeysSearch, "simple_search",
                          OffsetLimit(rows, skip, lim), Len(rows),
                          Len(OffsetLimit(rows, skip, lim)), 2) :
                    rows \in OrderByCreatedDesc(SearchMatches(query))}
           [] endpoint = "title" ->
                {Response("title", query, lim, skip, KeysTitleOrExact, "",
                          OffsetLimit(rows, skip, lim), Len(rows),
                          Len(OffsetLimit(rows, skip, lim)), 2) :
                    rows \in OrderByCreatedDesc(TitleMatches(query))}
           [] endpoint = "exact" ->
                {Response("exact", query, lim, skip, KeysTitleOrExact, "",
                          Slice(rows, skip, skip + lim), Len(rows),
                          Len(Slice(rows, skip, skip + lim)), ExactQueries(query)) :
                    rows \in OrderByCreatedDesc(ExactMatches(query))}

\* every finished request has a response it can get when handled alone
ResponsesAsAlone ==
    \A c \in Clients :
        reqs[c].pc = "done" =>
            reqs[c].response \in
                AloneResponses(reqs[c].endpoint, reqs[c].query, reqs[c].limit, reqs[c].skip)

\* C14: searches are read-only and independent: no step of a concurrent
\* search changes the catalog, and every request gets a response it can get
\* when run alone on the catalog, whatever the other requests in flight do.
C14_Independent ==
    /\ []ResponsesAsAlone
    /\ [][catalog' = catalog]_vars

\* C14 witness: two requests are in flight together, one finished with a
\* non-empty page while the other has run its first query only.
C14_Witness ==
    /\ reqs["c1"].pc = "done"
    /\ reqs["c1"].endpoint = "search"
    /\ reqs["c1"].response.products # <<>>
    /\ reqs["c2"].pc = "count"
    /\ reqs["c2"].query # reqs["c1"].query

---------------------------------------------------------------------------
(* Claims about typo correction and term extraction, checked under TextSpec *)

\* no reference title scores above 60 against the word
NoneAboveThreshold(word, candidates) ==
    \A k \in 1..Len(candidates) : ~AboveThreshold(PartialRatio(word, candidates[k]))

\* the words of the result are those of the query, one for one and in order,
\* joined by single spaces, and a word of at most 2 characters or without a
\* reference title scoring above 60 is the word of the query
WordForWord(query, candidates, out) ==
    LET query_words == Split(query)
        out_words == Split(out)
    IN  /\ Len(out_words) = Len(query_words)
        /\ out = Join(out_words)
        /\ \A i \in 1..Len(query_words) :
              (Len(query_words[i]) <= 2 \/ NoneAboveThreshold(query_words[i], candidates))
                  => out_words[i] = query_words[i]

\* C15 (as claimed): for every query and reference set the corrected query
\* has the words of the query one for one, joined by single spaces, with
\* short words and words without a match above 60 unchanged.
C15_Original ==
    text.fn = "correct_typo" => WordForWord(text.query, text.candidates, text.out)

\* C15 (amended): that holds whenever the query and the reference set are not
\* empty; with an empty query or reference set the result is the query as it
\* is, its whitespace included.
C15_WordForWord ==
    text.fn = "correct_typo" =>
        IF text.query # <<>> /\ text.candidates # <<>>
        THEN WordForWord(text.query, text.candidates, text.out)
        ELSE text.out = text.query

\* C15 witness: "a  cpa" has been corrected against the titles to "a cap".
C15_Witness ==
    /\ text.fn = "correct_typo"
    /\ text.query = <<"a", " ", " ", "c", "p", "a">>
    /\ text.candidates # <<>>
    /\ text.out = <<"a", " ", "c", "a", "p">>

\* the characters of the queries and titles
TextChars ==
    UNION {Range(q) : q \in TextQueries}
        \cup UNION {UNION {Range(c[k]) : k \in 1..Len(c)} : c \in TypoCandidates}

\* C16: typo correction returns a string for every query and reference set,
\* and the query itself when the query or the reference set is empty.
C16_NeverRaises ==
    text.fn = "correct_typo" =>
        /\ \A i \in 1..Len(text.out) : text.out[i] \in TextChars
        /\ (text.query = <<>> \/ text.candidates = <<>>) => text.out = text.query

\* C16 witness: "a  cpa" has come back as it is from an empty reference set.
C16_Witness ==
    /\ text.fn = "correct_typo"
    /\ text.query = <<"a", " ", " ", "c", "p", "a">>
    /\ text.candidates = <<>>
    /\ text.out = text.query

\* the punctuation of the model's alphabet, the hyphen aside
Punctuation == {",", "'"}

IsPunctuation(c) == c \in Punctuation

Whitespace == {" "}

\* the maximal runs of characters of s between the separators seps, after
\* the run cur
RECURSIVE Runs(_, _, _)
Runs(s, cur, seps) ==
    LET done == IF cur = <<>> THEN <<>> ELSE <<cur>>
    IN  IF s = <<>> THEN done
        ELSE IF Head(s) \in seps THEN done \o Runs(Tail(s), <<>>, seps)
        ELSE Runs(Tail(s), Append(cur, Head(s)), seps)

AtLeastTwo(word) == Len(word) >= 2

RECURSIVE WithoutPunctuation(_)
WithoutPunctuation(s) ==
    IF s = <<>> THEN <<>>
    ELSE (IF IsPunctuation(Head(s)) THEN <<>> ELSE <<Head(s)>>)
         \o WithoutPunctuation(Tail(s))

---------------------------------------------------------------------------
(* Claims about queries without a title match, checked under SearchSpec *)

\* the text is a substring of the title of some active product, in any case
InSomeTitle(x) ==
    \E id \in ProductIds :
        catalog[id].is_active = TRUE /\ ILikeContains(catalog[id].title, x)

\* the text is a tag of some active product, in any case
IsSomeTag(x) ==
    \E id \in ProductIds :
        /\ catalog[id].is_active = TRUE
        /\ \E k \in 1..Len(catalog[id].tags) : Lower(catalog[id].tags[k]) = Lower(x)

\* C18: a query that is in no title of an active product but is a tag of one
\* still gets a non-empty result and no error: the matching pipeline ends
\* with candidates, all of them from the phase that searches the other
\* fields, and GET /search answers with the matching products.
C18_TagOnlyQueryFound ==
    /\ (/\ pc = "done"
        /\ query_terms # <<>>
        /\ \A i \in 1..Len(query_terms) : ~InSomeTitle(query_terms[i])
        /\ \E i \in 1..Len(query_terms) :
              Len(query_terms[i]) >= 2 /\ IsSomeTag(query_terms[i])) =>
          /\ results # <<>>
          /\ \A j \in 1..Len(results) : results[j].match_type = "other_field"
    /\ (/\ resp.endpoint = "search"
        /\ ~Blank(resp.query)
        /\ ~InSomeTitle(Strip(resp.query))
        /\ IsSomeTag(Strip(resp.query))) =>
          /\ "error" \notin resp.keys
          /\ resp.total_results >= 1
          /\ resp.skip = 0 => resp.products # <<>>
          /\ resp.search_type = "simple_search"

\* C19: when the term list is empty, matching runs the exact-phrase phase and
\* no other phase, and does not fail.
C19_PhraseOnlyWithoutTerms ==
    (pc = "done" /\ query_terms = <<>>) => queried = <<"title_exact_phrase">>

---------------------------------------------------------------------------
(* Claims about the cart, checked under CartSpec and CartConcSpec *)

\* the cart item is in an active cart of the user
InActiveCartOf(user_id, cart_item_id) ==
    \E it \in cart_items :
        /\ it.id = cart_item_id
        /\ carts[it.cart_id].user_id = user_id
        /\ carts[it.cart_id].is_active = TRUE

\* the step is a run of update_cart_item or delete_cart_item
UpdatesOrDeletes == shop = NoShop /\ shop'.op \in {"update", "delete"}

\* C21: update_cart_item and delete_cart_item act on a cart item only if it
\* is in the active cart of the logged-in user.  Called for any other item
\* (of another user's cart, of an inactive cart, or missing) they answer 404
\* and leave every cart and every cart item as it was; when they succeed the
\* carts and every item other than the addressed one are as they were.
C21_OwnItemsOnly ==
    [][UpdatesOrDeletes =>
          /\ ~InActiveCartOf(shop'.user_id, shop'.target) =>
                shop'.status = 404 /\ carts' = carts /\ cart_items' = cart_items
          /\ shop'.status = 200 =>
                /\ InActiveCartOf(shop'.user_id, shop'.target)
                /\ carts' = carts
                /\ {it \in cart_items' : it.id # shop'.target}
                      = {it \in cart_items : it.id # shop'.target}]_vars

\* an update or a delete was refused for an item that is in the active cart of
\* another user
C21_Witness ==
    /\ shop.op \in {"update", "delete"}
    /\ shop.status = 404
    /\ \E it \in cart_items :
          /\ it.id = shop.target
          /\ carts[it.cart_id].is_active = TRUE
          /\ carts[it.cart_id].user_id # shop.user_id


\* C28: with the stock of the products constant, after any sequence of
\* add_to_cart, update_cart_item, delete_cart_item and move_to_cart every cart
\* item's quantity is at most the in-stock quantity of its product.
C28_WithinStock ==
    \A it \in cart_items : it.quantity <= instock[it.product_id]

\* C29: a user never has more than one active cart and a cart never holds two
\* items for one product, also when requests of one user interleave between
\* the existence check and the insert.
C29_OneCartOneItem ==
    /\ \A user_id \in CartUsers : Cardinality(ActiveCartsOf(user_id)) <= 1
    /\ \A cart \in 1..Len(carts), product_id \in CartProducts :
          Cardinality(ItemsOfProduct(cart, product_id)) <= 1

---------------------------------------------------------------------------
(* Claims about accounts, checked under LoginSpec, OtpSpec and ResetSpec *)

\* C22: the refresh token that login_for_access_token issues to an existing
\* user is accepted by refresh_access_token while it has not expired, which
\* returns new access and refresh tokens for that same user, and the new
\* access token is accepted by get_current_user as that user.
C22_TokenRoundTrip ==
    [][/\ ( /\ auth.op = "login" /\ auth.status = 200
            /\ auth'.op = "refresh"
            /\ ~DecodeRaises(auth.tokens[2], SECRET_KEY) ) =>
              /\ auth'.status = 200
              /\ auth'.user_id = UserByEmail(auth.email)
              /\ Len(auth'.tokens) = 2
       /\ ( /\ auth.op = "refresh" /\ auth.status = 200
            /\ auth'.op = "current_user"
            /\ ~DecodeRaises(auth.tokens[1], SECRET_KEY) ) =>
              /\ auth'.status = 200
              /\ auth'.user_id = auth.user_id]_vars


\* C23: login_for_access_token returns tokens only when the email exists, the
\* account's provider is LOCAL, the password verifies, the user is active and
\* verified, and save_login_log did not report the device limit as exceeded;
\* in every other case it answers an HTTP error and issues no token.
C23_TokensOnlyWhenAllHold ==
    auth.op = "login" =>
        LET user == UserByEmail(auth.email)
            all_hold ==
                /\ user # 0
                /\ users[user].provider = "LOCAL"
                /\ Verify(auth.password, users[user].password_hash)
                /\ users[user].is_active = TRUE
                /\ users[user].is_verified = TRUE
                /\ auth.logged
                /\ ~auth.device_limit_exceeded
        IN  /\ (auth.status = 200) <=> all_hold
            /\ (auth.tokens # <<>>) <=> (auth.status = 200)
            /\ auth.status # 200 => auth.status >= 400

C23_Witness ==
    /\ auth.op = "login"
    /\ auth.status = 200
    /\ Len(auth.tokens) = 2
    /\ Len(logs_activity) = MaxLogs


\* a step in which login_for_access_token ran save_login_log
LoginLogged == auth = NoAuth /\ auth'.op = "login" /\ auth'.logged

\* C24: save_login_log returns True exactly when, after recording the current
\* login, the number of distinct device fingerprints among the user's active
\* login logs of the last 30 days is greater than MAX_DEVICES; a login from a
\* device whose fingerprint matches an existing active log updates that log
\* and creates no new one.
C24_ReportsExactlyOverLimit ==
    [][LoginLogged =>
         LET user == UserByEmail(auth'.email)
             matching == {i \in ActiveLogsOf(user) :
                            /\ logs_activity[i].device_info # <<>>
                            /\ generate_device_fingerprint(logs_activity[i].device_info)
                                  = generate_device_fingerprint(auth'.device_info)}
         IN  /\ auth'.device_limit_exceeded
                   = (Cardinality(DeviceCombinations(logs_activity', user))
                          > MAX_DEVICES)
             /\ matching # {} =>
                   /\ Len(logs_activity') = Len(logs_activity)
                   /\ \E i \in matching :
                         logs_activity' =
                             [logs_activity EXCEPT ![i].login_time = now]]_vars


\* a step in which clear_logs_endpoint ran deactivate_login_logs
LogsCleared == auth = NoAuth /\ auth'.op = "clear_logs"

\* C25: after deactivate_login_logs(user, keep_recent=True) every login log of
\* that user except the one with the latest login_time is inactive, and after
\* keep_recent=False all of the user's logs are inactive; the logs of other
\* users are unchanged in both cases.
C25_DeactivatesOwnLogs ==
    [][LogsCleared =>
         LET user == auth'.user_id
             own == {i \in 1..Len(logs_activity) : logs_activity[i].user_id = user}
             Inactive(i) ==
                 logs_activity'[i] = [logs_activity[i] EXCEPT !.device_active = FALSE]
         IN  /\ Len(logs_activity') = Len(logs_activity)
             /\ \A i \in 1..Len(logs_activity) \ own :
                   logs_activity'[i] = logs_activity[i]
             /\ ~auth'.keep_recent => \A i \in own : Inactive(i)
             /\ (auth'.keep_recent /\ own # {}) =>
                   \E k \in own :
                      /\ \A j \in own :
                            logs_activity[j].login_time <= logs_activity[k].login_time
                      /\ logs_activity'[k] = logs_activity[k]
                      /\ \A i \in own \ {k} : Inactive(i)]_vars

C25_Witness ==
    /\ auth.op = "clear_logs"
    /\ auth.keep_recent
    /\ Len(logs_activity) = 2
    /\ \A i \in 1..2 : logs_activity[i].user_id = auth.user_id
    /\ logs_activity[1].login_time < logs_activity[2].login_time
    /\ logs_activity[1].device_active = FALSE
    /\ logs_activity[2].device_active = TRUE


\* a step in which verify_opt accepted a one-time password
OtpAccepted == auth = NoAuth /\ auth'.op = "verify_otp" /\ auth'.status = 200

\* C26: verify-otp accepts a one-time password only if it is stored for that
\* account with the matching verification code and is not older than 10
\* minutes; after one successful verification the same code is no longer
\* stored, so it is rejected; and an account holds at most one stored OTP.
C26_OtpAcceptedOnce ==
    /\ [](\A user_id \in UserIds : Cardinality(OtpsOf(user_id)) <= 1)
    /\ [][OtpAccepted =>
            LET user == UserByEmail(auth'.email)
                Matches(r) ==
                    /\ r.account_id = user
                    /\ r.otp_code = Upper(auth'.otp_code)
                    /\ r.verification_code = auth'.verification_code
            IN  /\ user # 0
                /\ \E r \in sent_otps : Matches(r) /\ now - r.date <= OtpLifetime
                /\ ~\E r \in sent_otps' : Matches(r)]_vars


\* a step in which process_password_reset handled a submission
ResetSubmitted == auth = NoAuth /\ auth'.op = "reset"

\* C27: process_password_reset changes the password only for a token that
\* exists, is unexpired and unused, and marks it used in the same commit, so
\* every later reset with that token is rejected; a submission rejected for
\* mismatching or too-short passwords leaves the password unchanged and the
\* token unused.
C27_SingleUseToken ==
    [][/\ \A t \in 1..Len(password_reset_tokens) :
             password_reset_tokens[t].is_used = TRUE =>
                 password_reset_tokens'[t].is_used = TRUE
       /\ ResetSubmitted =>
             LET token == auth'.token
                 usable ==
                     /\ token \in 1..Len(password_reset_tokens)
                     /\ password_reset_tokens[token].expires_at > now
                     /\ password_reset_tokens[token].is_used = FALSE
                 acceptable ==
                     /\ auth'.new_password = auth'.confirm_password
                     /\ Len(auth'.new_password) >= MinPasswordLength
             IN  /\ ~usable =>
                       /\ auth'.status = 400
                       /\ users' = users
                       /\ password_reset_tokens' = password_reset_tokens
                 /\ (usable /\ ~acceptable) =>
                       /\ auth'.page = "form"
                       /\ users' = users
                       /\ password_reset_tokens' = password_reset_tokens
                 /\ (usable /\ acceptable) =>
                       /\ auth'.page = "success"
                       /\ users' =
                            [users EXCEPT
                               ![password_reset_tokens[token].user_id].password_hash =
                                   Hash(auth'.new_password)]
                       /\ password_reset_tokens' =
                            [password_reset_tokens EXCEPT ![token].is_used = TRUE]]_vars

C27_Witness ==
    /\ auth.op = "reset"
    /\ auth.status = 400
    /\ auth.token \in 1..Len(password_reset_tokens)
    /\ password_reset_tokens[auth.token].is_used = TRUE
    /\ password_reset_tokens[auth.token].expires_at > now
    /\ users[password_reset_tokens[auth.token].user_id].password_hash
          # UserRows[password_reset_tokens[auth.token].user_id].password_hash

===========================================================================
